---- MODULE Spec2Model ----
(***************************************************************************)
(* A state-machine model of the nx-archive stream substrate (src/io.rs)    *)
(* and of the NCA reader's key handling (src/formats/nca/mod.rs).          *)
(*                                                                         *)
(* u64 / i64 values are modelled at WordBits bits: AsU64 is the wrapping  *)
(* conversion `as u64`, AsI64 the reinterpretation `as i64`.               *)
(***************************************************************************)
EXTENDS Integers, Sequences, FiniteSets, TLC

VARIABLES
    overflowChecks, \* TRUE: the build panics on arithmetic overflow (debug profile)
    sfCursor,       \* position of the source behind the SharedReader used by the SubFiles
    sf,             \* handle -> SubFile {start, end, position}
    sfOut,          \* the last SubFile call: arguments, pre-state and result
    thr,            \* thread -> progress of a SubFile::read in flight
    ctrImg,         \* key / ctr the ciphertext of the source was produced with
    ctrCursor,      \* position of the source behind the SharedReader used by the CTR readers
    ctrRd,          \* reader -> Aes128CtrReader {base_offset, offset, ctr, key}
    ctrOut,         \* the last Aes128CtrReader call
    ncaIn,          \* inputs of Nca::from_reader: header fields, keyset, title keys
    nca,            \* the Nca object (or its absence)
    ncaOut,         \* the last Nca call
    dump,           \* Nca::decrypt_and_dump_fs in progress: the bytes collected so far
    img,            \* the bytes of a container image, as the parsers read them
    obj,            \* the container object a parser built (or its absence)
    out             \* the last container call

vars == <<overflowChecks, sfCursor, sf, sfOut, thr, ctrImg, ctrCursor, ctrRd, ctrOut,
          ncaIn, nca, ncaOut, dump, img, obj, out>>

subVars == <<sfCursor, sf, sfOut, thr>>
ctrVars == <<ctrImg, ctrCursor, ctrRd, ctrOut>>
ncaVars == <<ncaIn, nca, ncaOut, dump>>
fmtVars == <<img, obj, out>>

----------------------------------------------------------------------------
(* Machine integers *)

\* width, in bits, at which u64 and i64 are modelled
WordBits == 3

RECURSIVE Pow2(_)
Pow2(n) == IF n = 0 THEN 1 ELSE 2 * Pow2(n - 1)

U64Mod == Pow2(WordBits)
I64Max == (U64Mod \div 2) - 1
I64Min == -(U64Mod \div 2)

\* Option<T>
None == [some |-> FALSE, value |-> 0]

Some(value) == [some |-> TRUE, value |-> value]

Min(a, b) == IF a < b THEN a ELSE b

AsU64(x) == x % U64Mod
AsI64(x) == IF x > I64Max THEN x - U64Mod ELSE x
\* i64 addition: wraps in a release build, panics under overflow checks
I64AddOverflows(a, b) == a + b > I64Max \/ a + b < I64Min
I64WrappingAdd(a, b) == AsI64(AsU64(a + b))

----------------------------------------------------------------------------
(* The byte source behind a SharedReader: an in-memory cursor *)

\* length of the source the SubFiles share
SubSrcLen == 5

\* the byte the source holds at absolute offset a (distinct per offset)
SubSrcByte(a) == (a * 37 + 11) % 256

\* Read for the inner source: delivers what is left, at most n bytes
InnerAvail(len, pos, n) == IF pos >= len THEN 0 ELSE Min(n, len - pos)

SubSrcRead(pos, n) ==
    [i \in 1..InnerAvail(SubSrcLen, pos, n) |-> SubSrcByte(pos + i - 1)]

----------------------------------------------------------------------------
(* SubFile *)

Handles == {1, 2}

\* the windows a SubFile is created with (start <= end)
SubWindows == {<<0, 0>>, <<1, 3>>, <<0, U64Mod - 1>>}

\* the windows of the second SubFile over the same source
SubWindows2 == {<<2, 5>>, <<4, 4>>}

SubFileNew(start, end) == [start |-> start, end |-> end, position |-> 0]

SubFileSize(s) == s.end - s.start

\* SubFile::read, the early return
SubFileAtEnd(s) == s.start = s.end \/ s.position >= s.end - s.start

\* SubFile::read, the absolute offset the source is sought to
SubFileSeekTarget_NoStart(s) == s.position
SubFileSeekTarget_NoSeek(s) == sfCursor
SubFileSeekTarget(s) == s.start + s.position

\* SubFile::read, the clamp of the buffer length to the window
SubFileMaxRead(s, n) == Min(n, (s.end - s.start) - s.position)

\* SubFile::seek, the operands of the signed addition
SeekSignedBase(s, whence) ==
    IF whence = "End" THEN AsI64(s.end - s.start) ELSE AsI64(s.position)

\* SubFile::seek, new_pos
SubFileNewPos(s, whence, off) ==
    IF whence = "Start" THEN off
    ELSE AsU64(I64WrappingAdd(SeekSignedBase(s, whence), off))

\* SubFile::seek, the bounds check (TRUE: the seek is refused)
SubFileSeekPastEnd_AgainstEnd(s, new_pos) == new_pos > s.end
SubFileSeekPastEnd(s, new_pos) == new_pos > s.end - s.start

NoSfOut ==
    [h |-> 0, op |-> "none", whence |-> "none", arg |-> 0, res |-> "none", ret |-> 0,
     bytes |-> <<>>, pre |-> <<>>, preCursor |-> 0]

SubHalted == sfOut.res = "panic"

\* a whole SubFile::read(buf) with buf.len() = n, on handle h
SubFileRead(h, n) ==
    /\ ~SubHalted
    /\ LET s == sf[h] IN
       IF SubFileAtEnd(s)
       THEN /\ sfOut' = [NoSfOut EXCEPT !.h = h, !.op = "read", !.arg = n, !.res = "ok",
                                        !.pre = sf, !.preCursor = sfCursor]
            /\ UNCHANGED <<sf, sfCursor>>
       ELSE LET target == SubFileSeekTarget(s)
                max_read == SubFileMaxRead(s, n)
                got == SubSrcRead(target, max_read)
            IN /\ sf' = [sf EXCEPT ![h].position = s.position + Len(got)]
               /\ sfCursor' = target + Len(got)
               /\ sfOut' = [NoSfOut EXCEPT !.h = h, !.op = "read", !.arg = n, !.res = "ok",
                                           !.ret = Len(got), !.bytes = got,
                                           !.pre = sf, !.preCursor = sfCursor]
    /\ UNCHANGED <<overflowChecks, thr>>

\* a whole SubFile::seek(pos) on handle h
SubFileSeek(h, whence, off) ==
    /\ ~SubHalted
    /\ LET s == sf[h]
           base == [NoSfOut EXCEPT !.h = h, !.op = "seek", !.whence = whence, !.arg = off,
                                   !.pre = sf, !.preCursor = sfCursor]
       IN IF whence # "Start" /\ overflowChecks
             /\ I64AddOverflows(SeekSignedBase(s, whence), off)
          THEN /\ sfOut' = [base EXCEPT !.res = "panic"]
               /\ UNCHANGED sf
          ELSE LET new_pos == SubFileNewPos(s, whence, off) IN
               IF SubFileSeekPastEnd(s, new_pos)
               THEN /\ sfOut' = [base EXCEPT !.res = "invalid_input"]
                    /\ UNCHANGED sf
               ELSE /\ sf' = [sf EXCEPT ![h].position = new_pos]
                    /\ sfOut' = [base EXCEPT !.res = "ok", !.ret = new_pos]
    /\ UNCHANGED <<overflowChecks, sfCursor, thr>>

\* buffer lengths and seek arguments the callers use
MaxBuf == 3
SeekStarts == {0, 1, 2, 4, I64Max, I64Max + 1, U64Mod - 1}
SeekOffsets == {I64Min, -1, 0, 1, 2, I64Max}

IdleThr == [t \in Handles |-> [pc |-> "idle", n |-> 0]]

CtrIdle ==
    /\ ctrImg = [key |-> 0, ctr |-> 0]
    /\ ctrCursor = 0
    /\ ctrRd = <<>>
    /\ ctrOut = <<>>

NcaIdle ==
    /\ ncaIn = <<>>
    /\ nca = <<>>
    /\ ncaOut = <<>>
    /\ dump = <<>>

FmtIdle ==
    /\ img = <<>>
    /\ obj = <<>>
    /\ out = <<>>

SubInit ==
    /\ overflowChecks \in BOOLEAN
    /\ sfCursor = 0
    /\ \E w1 \in SubWindows, w2 \in SubWindows2 :
          sf = [h \in Handles |-> IF h = 1 THEN SubFileNew(w1[1], w1[2])
                                           ELSE SubFileNew(w2[1], w2[2])]
    /\ sfOut = NoSfOut
    /\ thr = IdleThr
    /\ CtrIdle
    /\ NcaIdle
    /\ FmtIdle

SubIdleOthers == UNCHANGED <<ctrVars, ncaVars, fmtVars>>

SubRead ==
    /\ \E h \in Handles, n \in 0..MaxBuf : SubFileRead(h, n)
    /\ SubIdleOthers
SubSeekStart ==
    /\ \E h \in Handles, off \in SeekStarts : SubFileSeek(h, "Start", off)
    /\ SubIdleOthers
SubSeekEnd ==
    /\ \E h \in Handles, off \in SeekOffsets : SubFileSeek(h, "End", off)
    /\ SubIdleOthers
SubSeekCurrent ==
    /\ \E h \in Handles, off \in SeekOffsets : SubFileSeek(h, "Current", off)
    /\ SubIdleOthers

SubNext == SubRead \/ SubSeekStart \/ SubSeekEnd \/ SubSeekCurrent

\* two SubFiles over one SharedReader, whole calls interleaved by one thread
SpecSub == SubInit /\ [][SubNext]_vars

----------------------------------------------------------------------------
(* Two threads, each driving its own SubFile over a clone of one SharedReader. *)
(* SharedReader::seek and SharedReader::read each take the lock for one call. *)

\* SubFile::read up to and including self.reader.seek(..): one locked call
ThrReadSeek(t, n) ==
    /\ ~SubHalted
    /\ thr[t].pc = "idle"
    /\ LET s == sf[t] IN
       IF SubFileAtEnd(s)
       THEN /\ sfOut' = [NoSfOut EXCEPT !.h = t, !.op = "read", !.arg = n, !.res = "ok",
                                        !.pre = sf, !.preCursor = sfCursor]
            /\ UNCHANGED <<sfCursor, thr>>
       ELSE /\ sfCursor' = SubFileSeekTarget(s)
            /\ thr' = [thr EXCEPT ![t] = [pc |-> "seeked", n |-> n]]
            /\ UNCHANGED sfOut
    /\ UNCHANGED <<overflowChecks, sf>>

\* SubFile::read from self.reader.read(..) to the return: a second locked call
ThrReadRead(t) ==
    /\ thr[t].pc = "seeked"
    /\ LET s == sf[t]
           max_read == SubFileMaxRead(s, thr[t].n)
           got == SubSrcRead(sfCursor, max_read)
       IN /\ sf' = [sf EXCEPT ![t].position = s.position + Len(got)]
          /\ sfCursor' = sfCursor + Len(got)
          /\ sfOut' = [NoSfOut EXCEPT !.h = t, !.op = "read", !.arg = thr[t].n, !.res = "ok",
                                      !.ret = Len(got), !.bytes = got,
                                      !.pre = sf, !.preCursor = sfCursor]
          /\ thr' = [thr EXCEPT ![t] = [pc |-> "idle", n |-> 0]]
    /\ UNCHANGED overflowChecks

\* SubFile::seek touches only the handle's own position
ThrSeek(t, whence, off) ==
    /\ thr[t].pc = "idle"
    /\ SubFileSeek(t, whence, off)

ThrBegin ==
    /\ \E t \in Handles, n \in 1..MaxBuf : ThrReadSeek(t, n)
    /\ SubIdleOthers
ThrEnd ==
    /\ \E t \in Handles : ThrReadRead(t)
    /\ SubIdleOthers
ThrSeekStart ==
    /\ \E t \in Handles, off \in SeekStarts : ThrSeek(t, "Start", off)
    /\ SubIdleOthers

ThrNext == ThrBegin \/ ThrEnd \/ ThrSeekStart

\* two SubFiles over one SharedReader, each driven by its own thread
SpecThr == SubInit /\ [][ThrNext]_vars

----------------------------------------------------------------------------
(* Aes128CtrReader.                                                         *)
(* Offsets of the reader stay far below 2^63, so `as u64` of a negative i64 *)
(* yields a value of 2^64 - k, beyond the end of every source. Such a value *)
(* is written here as the integer -k it is congruent to: align_down, the     *)
(* shift by 4 and the additions agree modulo 2^64, and a source positioned   *)
(* there delivers no bytes.                                                   *)

\* the AES block size every alignment in Aes128CtrReader::read uses
AesBlock == 16

align_down(value, align) == value - (value % align)
align_up(value, align) == ((value + align - 1) \div align) * align

\* the 128-bit tweak, big-endian: its high and low 64-bit words
get_nintendo_tweak(hi, lo) == [hi |-> hi, lo |-> lo]

\* exclusive or of two bytes
RECURSIVE XorBits(_, _, _)
XorBits(a, b, k) ==
    IF k = 0 THEN 0
    ELSE ((a + b) % 2) + 2 * XorBits(a \div 2, b \div 2, k - 1)
Xor(a, b) == XorBits(a, b, 8)

\* byte j of the AES-128 encryption of the counter block (hi, lo) under key:
\* a fixed function of key and counter block standing for the cipher
AesBlockByte(key, hi, lo, j) == (key * 31 + hi * 101 + lo * 73 + j * 7 + 13) % 256

\* Ctr128BE started at iv: byte i (from 0) of its keystream; the counter is the
\* big-endian 128-bit iv plus the block number
KeystreamByte(key, iv, i) == AesBlockByte(key, iv.hi, iv.lo + (i \div AesBlock), i % AesBlock)

\* length of the source the CTR readers share
CtrSrcLen == 40

\* the plaintext, by absolute source offset
CtrPlain(a) == (a * 29 + 3) % 256

\* the source: AES-128-CTR of CtrPlain, the IV of the block at absolute offset a
\* being (ctr << 64) | (a >> 4)
CtrSrcByte(a) ==
    Xor(CtrPlain(a),
        KeystreamByte(ctrImg.key, get_nintendo_tweak(ctrImg.ctr, a \div AesBlock), a % AesBlock))

\* Read of the inner source at pos into a buffer of size bytes: the count delivered
CtrSrcAvail(pos, size) == IF pos < 0 THEN 0 ELSE InnerAvail(CtrSrcLen, pos, size)

\* byte j (from 0) of read_buf after that read: the buffer starts zeroed
CtrReadBufByte(pos, size, j) == IF j < CtrSrcAvail(pos, size) THEN CtrSrcByte(pos + j) ELSE 0

Aes128CtrReaderNew(base_offset, ctr, key) ==
    [base_offset |-> base_offset, offset |-> base_offset, ctr |-> ctr, key |-> key]

\* Aes128CtrReader::seek: the new self.offset
CtrSeekOffset(rd, whence, arg) ==
    CASE whence = "Current" -> rd.offset + arg
      [] whence = "Start" -> rd.base_offset + arg
      [] whence = "End" -> rd.offset + arg

\* Aes128CtrReader::read: the offset the aligned window is derived from
CtrReadOffset(rd) == ctrCursor

\* Aes128CtrReader::read: the IV of the aligned window
CtrReadIv_Relative(rd, aligned_offset) ==
    get_nintendo_tweak(rd.ctr, (aligned_offset - rd.base_offset) \div AesBlock)
CtrReadIv(rd, aligned_offset) == get_nintendo_tweak(rd.ctr, aligned_offset \div AesBlock)

\* Aes128CtrReader::read: the second seek's displacement
CtrReseekDelta(read_size, read_buf_size_diff) == read_size - read_buf_size_diff

NoCtrOut ==
    [r |-> 0, op |-> "none", whence |-> "none", arg |-> 0, ret |-> 0, bytes |-> <<>>,
     pre |-> <<>>, preCursor |-> 0, afterSeekStart |-> FALSE, afterRead |-> FALSE,
     calls |-> 0]

\* calls issued in one behaviour
MaxCtrCalls == 3

\* a whole Aes128CtrReader::seek(pos) on reader r
CtrSeek(r, whence, arg) ==
    /\ ctrOut.calls < MaxCtrCalls
    /\ LET new_offset == CtrSeekOffset(ctrRd[r], whence, arg) IN
       /\ ctrRd' = [ctrRd EXCEPT ![r].offset = new_offset]
       /\ ctrCursor' = new_offset
       /\ ctrOut' = [NoCtrOut EXCEPT !.r = r, !.op = "seek", !.whence = whence, !.arg = arg,
                                     !.ret = new_offset, !.pre = ctrRd,
                                     !.preCursor = ctrCursor,
                                     !.afterRead = ctrOut.op = "read" /\ ctrOut.r = r,
                                     !.calls = ctrOut.calls + 1]
    /\ UNCHANGED ctrImg

\* a whole Aes128CtrReader::read(buf) with buf.len() = n, on reader r
CtrRead(r, n) ==
    /\ ctrOut.calls < MaxCtrCalls
    /\ LET rd == ctrRd[r]
           offset == CtrReadOffset(rd)
           aligned_offset == align_down(offset, AesBlock)
           diff == offset - aligned_offset
           read_buf_size_raw == n + diff
           read_buf_size == align_up(read_buf_size_raw, AesBlock)
           read_buf_size_diff == read_buf_size - read_buf_size_raw
           \* self.seek(SeekFrom::Current(-diff))
           offset1 == CtrSeekOffset(rd, "Current", -diff)
           read_size == CtrSrcAvail(offset1, read_buf_size)
           \* self.seek(SeekFrom::Current(read_size - read_buf_size_diff))
           offset2 == CtrSeekOffset([rd EXCEPT !.offset = offset1], "Current",
                                    CtrReseekDelta(read_size, read_buf_size_diff))
           iv == CtrReadIv(rd, aligned_offset)
       IN /\ ctrRd' = [ctrRd EXCEPT ![r].offset = offset2]
          /\ ctrCursor' = offset2
          /\ ctrOut' = [NoCtrOut EXCEPT !.r = r, !.op = "read", !.arg = n, !.ret = n,
                                        !.bytes = [i \in 1..n |->
                                            Xor(CtrReadBufByte(offset1, read_buf_size, diff + i - 1),
                                                KeystreamByte(rd.key, iv, diff + i - 1))],
                                        !.pre = ctrRd, !.preCursor = ctrCursor,
                                        !.afterSeekStart =
                                            /\ ctrOut.op = "seek"
                                            /\ ctrOut.whence = "Start"
                                            /\ ctrOut.r = r,
                                        !.calls = ctrOut.calls + 1]
    /\ UNCHANGED ctrImg

\* base offsets and (key, ctr) pairs the readers are created with
CtrBases == {0, 5, 16}
CtrParams == {<<7, 0>>, <<11, 2>>}
\* logical positions of the seeks and buffer lengths of the reads
CtrSeeks == {0, 1, 5, 15, 16, 17, 24, 31, 32}
CtrLens == {0, 1, 15, 16, 17, 24}

SubIdle ==
    /\ sfCursor = 0
    /\ sf = <<>>
    /\ sfOut = NoSfOut
    /\ thr = <<>>

\* one reader over the source
CtrInit ==
    /\ overflowChecks = FALSE
    /\ SubIdle
    /\ NcaIdle
    /\ FmtIdle
    /\ \E kc \in CtrParams, base \in CtrBases :
          /\ ctrImg = [key |-> kc[1], ctr |-> kc[2]]
          /\ ctrRd = [r \in {1} |-> Aes128CtrReaderNew(base, kc[2], kc[1])]
          /\ ctrCursor = base
    /\ ctrOut = NoCtrOut

\* two readers over clones of one SharedReader, created one after the other
CtrSharedInit ==
    /\ overflowChecks = FALSE
    /\ SubIdle
    /\ NcaIdle
    /\ FmtIdle
    /\ \E kc \in CtrParams, base1 \in CtrBases, base2 \in CtrBases \ {5} :
          /\ base1 # base2
          /\ ctrImg = [key |-> kc[1], ctr |-> kc[2]]
          /\ ctrRd = [r \in {1, 2} |->
                         Aes128CtrReaderNew(IF r = 1 THEN base1 ELSE base2, kc[2], kc[1])]
          /\ ctrCursor = base2
    /\ ctrOut = NoCtrOut

CtrIdleOthers == UNCHANGED <<overflowChecks, subVars, ncaVars, fmtVars>>

CtrSeekStart ==
    /\ \E r \in DOMAIN ctrRd, p \in CtrSeeks : CtrSeek(r, "Start", p)
    /\ CtrIdleOthers
CtrSeekCurrent ==
    /\ \E r \in DOMAIN ctrRd, c \in {-1, 0} : CtrSeek(r, "Current", c)
    /\ CtrIdleOthers
CtrSeekEnd ==
    /\ \E r \in DOMAIN ctrRd, c \in {0} : CtrSeek(r, "End", c)
    /\ CtrIdleOthers
CtrReadAny ==
    /\ \E r \in DOMAIN ctrRd, n \in CtrLens : CtrRead(r, n)
    /\ CtrIdleOthers

CtrNext == CtrSeekStart \/ CtrSeekCurrent \/ CtrSeekEnd \/ CtrReadAny

SpecCtr == CtrInit /\ [][CtrNext]_vars
SpecCtrShared == CtrSharedInit /\ [][CtrNext]_vars

----------------------------------------------------------------------------
(* Pfs0 and Hfs0: the partition containers *)

\* offsets and sizes of the containers are u64, kept to OffsetBits bits
OffsetBits == 8

OffsetMod == Pow2(OffsetBits)

\* u64 + u64: the sum wraps where overflow is not checked
OffsetAdd(a, b) == (a + b) % OffsetMod

OffsetAddOverflows(a, b) == a + b >= OffsetMod

\* vec![0; n] panics with capacity overflow above isize::MAX
AllocPanics(n) == n >= OffsetMod \div 2

\* the source of a container: length img.len, byte a by its offset
FsSrcByte(a) == (a * 41 + 7) % 256

FsSrcBytes(offset, n) == [i \in 1..n |-> FsSrcByte(offset + i - 1)]

\* std::str::from_utf8 on the bytes of a name: the model's names use ASCII
\* letters and 0xFF, which no UTF-8 string contains
Utf8Valid(bytes) == \A i \in 1..Len(bytes) : bytes[i] < 128

\* the end of the name that starts at name_start: the first NUL, else the table's end
NameEnd(string_table, name_start) ==
    LET nuls == {p \in (name_start + 1)..Len(string_table) : string_table[p] = 0}
    IN IF nuls = {} THEN Len(string_table)
       ELSE (CHOOSE p \in nuls : \A q \in nuls : p <= q) - 1

\* Pfs0Entry::get_name: slicing from beyond the table panics
Pfs0GetName(entry, string_table) ==
    LET name_start == entry.string_table_offset IN
    IF name_start > Len(string_table) THEN [res |-> "panic", name |-> <<>>]
    ELSE LET name == SubSeq(string_table, name_start + 1, NameEnd(string_table, name_start))
         IN IF Utf8Valid(name) THEN [res |-> "Ok", name |-> name]
            ELSE [res |-> "Utf8Error", name |-> <<>>]

Pfs0File(name, data_offset, size) == [name |-> name, data_offset |-> data_offset, size |-> size]

Pfs0HeaderLen == 16

Pfs0EntryLen == 24

\* the result of a container call: the error or panic, or the file, the list of
\* files, the bytes or the SubFile window returned
FsResult(res) == [op |-> "none", res |-> res, arg |-> <<>>, file |-> <<>>, files |-> <<>>,
                  data |-> <<>>, window |-> <<>>]

\* Pfs0::from_reader: the error, the panic or the Pfs0
Pfs0FromReaderResult(image) ==
    IF image.len < Pfs0HeaderLen \/ image.magic # "PFS0" THEN "BinaryParser"
    ELSE IF image.len < Pfs0HeaderLen + Pfs0EntryLen * image.num_files THEN "BinaryParser"
    ELSE IF image.len < Pfs0HeaderLen + Pfs0EntryLen * image.num_files + image.str_table_size
    THEN "Io"
    ELSE IF \E i \in 1..image.num_files :
               Pfs0GetName(image.entries[i], image.string_table).res # "Ok"
    THEN "panic"
    ELSE "Ok"

Pfs0New(image) ==
    [kind |-> "Pfs0",
     header |-> [num_files |-> image.num_files, str_table_offset |-> image.str_table_size],
     files |-> [i \in 1..image.num_files |->
                  Pfs0File(Pfs0GetName(image.entries[i], image.string_table).name,
                           image.entries[i].data_offset, image.entries[i].data_size)]]

\* Pfs0::get_file: the first file of that name
Pfs0Find(fs, path) ==
    LET hits == {i \in 1..Len(fs.files) : fs.files[i].name = path}
    IN IF hits = {} THEN None ELSE Some(fs.files[CHOOSE i \in hits : \A j \in hits : i <= j])

\* Pfs0::get_files
Pfs0GetFiles(fs) == fs.files

\* Pfs0::list_files
Pfs0ListFiles(fs) == [i \in 1..Len(fs.files) |-> fs.files[i].name]

\* read_buf, subfile, create_reader: where the file data start
Pfs0FilesStart(fs) ==
    Pfs0HeaderLen + Pfs0EntryLen * fs.header.num_files + fs.header.str_table_offset

\* Pfs0::read_buf(file, buf) with buf.len() = n
Pfs0ReadBufResult(fs, file, n) ==
    LET files_start_offset == Pfs0FilesStart(fs)
        offset == OffsetAdd(files_start_offset, file.data_offset)
    IN IF overflowChecks /\ OffsetAddOverflows(files_start_offset, file.data_offset)
       THEN [FsResult("panic") EXCEPT !.file = file]
       ELSE IF offset + n > img.len
       THEN [FsResult("Io") EXCEPT !.file = file]
       ELSE [FsResult("Ok") EXCEPT !.file = file, !.data = FsSrcBytes(offset, n)]

\* Pfs0::read_file(vpath)
Pfs0ReadFileResult(fs, vpath) ==
    LET file == Pfs0Find(fs, vpath) IN
    IF ~file.some THEN FsResult("NotFound")
    ELSE IF AllocPanics(file.value.size) THEN [FsResult("panic") EXCEPT !.file = file.value]
    ELSE Pfs0ReadBufResult(fs, file.value, file.value.size)

\* Pfs0::subfile / create_reader: the window of the SubFile
Pfs0SubFileResult(fs, file) ==
    LET files_start_offset == Pfs0FilesStart(fs)
        offset == OffsetAdd(files_start_offset, file.data_offset)
    IN IF overflowChecks /\ (\/ OffsetAddOverflows(files_start_offset, file.data_offset)
                             \/ OffsetAddOverflows(offset, file.size))
       THEN [FsResult("panic") EXCEPT !.file = file]
       ELSE [FsResult("Ok") EXCEPT !.file = file,
                                   !.window = SubFileNew(offset, OffsetAdd(offset, file.size))]

Hfs0HeaderLen == 16

\* size_of::<Hfs0Entry>()
Hfs0EntryLen == 64

Hfs0File(name, size, offset) == [name |-> name, size |-> size, offset |-> offset]

\* Hfs0::new: Hfs0Header::read
Hfs0NewResult(image) ==
    IF image.len < Hfs0HeaderLen \/ image.magic # "HFS0" THEN "BinaryParser"
    ELSE IF image.len < Hfs0HeaderLen + Hfs0EntryLen * image.num_files + image.str_table_size
    THEN "BinaryParser"
    ELSE "Ok"

Hfs0New(image) ==
    [kind |-> "Hfs0",
     header |-> [file_count |-> image.num_files,
                 string_table_size |-> image.str_table_size,
                 file_entries |-> [i \in 1..image.num_files |->
                     [offset |-> image.entries[i].data_offset,
                      size |-> image.entries[i].data_size,
                      filename_offset |-> image.entries[i].string_table_offset]],
                 string_table |-> image.string_table]]

\* the name of an entry as list_files and get_file compute it
Hfs0EntryName(fs, entry) ==
    LET string_table == fs.header.string_table
        filename_offset == entry.filename_offset
    IN IF filename_offset > Len(string_table) THEN [res |-> "panic", name |-> <<>>]
       ELSE LET name == SubSeq(string_table, filename_offset + 1,
                               NameEnd(string_table, filename_offset))
            IN IF Utf8Valid(name) THEN [res |-> "Ok", name |-> name]
               ELSE [res |-> "InvalidData", name |-> <<>>]

Hfs0HeaderSize(fs) ==
    Hfs0HeaderLen + Len(fs.header.file_entries) * Hfs0EntryLen + fs.header.string_table_size

\* Hfs0::get_file: find_map over the entries from entry i on
RECURSIVE Hfs0GetFileFrom(_, _, _)
Hfs0GetFileFrom(fs, name, i) ==
    IF i > Len(fs.header.file_entries) THEN [FsResult("Ok") EXCEPT !.file = None]
    ELSE LET entry == fs.header.file_entries[i]
             entry_name == Hfs0EntryName(fs, entry)
         IN IF entry_name.res = "panic" THEN FsResult("panic")
            ELSE IF entry_name.res = "Ok" /\ entry_name.name = name
            THEN IF overflowChecks /\ OffsetAddOverflows(entry.offset, Hfs0HeaderSize(fs))
                 THEN FsResult("panic")
                 ELSE [FsResult("Ok") EXCEPT !.file =
                          Some(Hfs0File(entry_name.name, entry.size,
                                        OffsetAdd(entry.offset, Hfs0HeaderSize(fs))))]
            ELSE Hfs0GetFileFrom(fs, name, i + 1)

Hfs0GetFile(fs, name) == Hfs0GetFileFrom(fs, name, 1)

\* Hfs0::list_files: the entries from entry i on, each through get_file by name;
\* the first error ends the collection
RECURSIVE Hfs0ListFilesFrom(_, _)
Hfs0ListFilesFrom(fs, i) ==
    IF i > Len(fs.header.file_entries) THEN FsResult("Ok")
    ELSE LET entry_name == Hfs0EntryName(fs, fs.header.file_entries[i]) IN
         IF entry_name.res # "Ok" THEN FsResult(entry_name.res)
         ELSE LET found == Hfs0GetFile(fs, entry_name.name) IN
              IF found.res # "Ok" THEN FsResult(found.res)
              ELSE IF ~found.file.some THEN FsResult("InvalidState")
              ELSE LET rest == Hfs0ListFilesFrom(fs, i + 1) IN
                   IF rest.res # "Ok" THEN rest
                   ELSE [rest EXCEPT !.files = <<found.file.value>> \o rest.files]

Hfs0ListFiles(fs) == Hfs0ListFilesFrom(fs, 1)

FsHalted == out.res = "panic"

FsIdleOthers == UNCHANGED <<overflowChecks, subVars, ctrVars, ncaVars>>

\* Pfs0::from_reader on the image
Pfs0FromReader ==
    /\ img.parser = "Pfs0"
    /\ out.op = "none"
    /\ LET res == Pfs0FromReaderResult(img) IN
       /\ out' = [FsResult(res) EXCEPT !.op = "from_reader"]
       /\ obj' = IF res = "Ok" THEN Pfs0New(img) ELSE obj
    /\ UNCHANGED img
    /\ FsIdleOthers

\* Hfs0::new on the image
Hfs0NewHfs0 ==
    /\ img.parser = "Hfs0"
    /\ out.op = "none"
    /\ LET res == Hfs0NewResult(img) IN
       /\ out' = [FsResult(res) EXCEPT !.op = "new"]
       /\ obj' = IF res = "Ok" THEN Hfs0New(img) ELSE obj
    /\ UNCHANGED img
    /\ FsIdleOthers

FsOpened(kind) == obj # <<>> /\ obj.kind = kind /\ ~FsHalted

Pfs0ReadFile(vpath) ==
    /\ FsOpened("Pfs0")
    /\ out' = [Pfs0ReadFileResult(obj, vpath) EXCEPT !.op = "read_file", !.arg = vpath]
    /\ UNCHANGED <<img, obj>>
    /\ FsIdleOthers

\* read_buf of a listed file into a buffer of the file's size
Pfs0ReadBuf(i) ==
    /\ FsOpened("Pfs0")
    /\ i \in 1..Len(Pfs0GetFiles(obj))
    /\ ~AllocPanics(Pfs0GetFiles(obj)[i].size)
    /\ out' = [Pfs0ReadBufResult(obj, Pfs0GetFiles(obj)[i], Pfs0GetFiles(obj)[i].size)
                  EXCEPT !.op = "read_buf", !.arg = i]
    /\ UNCHANGED <<img, obj>>
    /\ FsIdleOthers

\* create_reader (and subfile) of a listed file
Pfs0CreateReader(i) ==
    /\ FsOpened("Pfs0")
    /\ i \in 1..Len(Pfs0GetFiles(obj))
    /\ out' = [Pfs0SubFileResult(obj, Pfs0GetFiles(obj)[i])
                  EXCEPT !.op = "create_reader", !.arg = i]
    /\ UNCHANGED <<img, obj>>
    /\ FsIdleOthers

Hfs0ListFilesCall ==
    /\ FsOpened("Hfs0")
    /\ out' = [Hfs0ListFiles(obj) EXCEPT !.op = "list_files"]
    /\ UNCHANGED <<img, obj>>
    /\ FsIdleOthers

Hfs0GetFileCall(name) ==
    /\ FsOpened("Hfs0")
    /\ out' = [Hfs0GetFile(obj, name) EXCEPT !.op = "get_file", !.arg = name]
    /\ UNCHANGED <<img, obj>>
    /\ FsIdleOthers

\* files per image
MaxFiles == 2

\* bytes of file data behind the string table
FsDataLen == 6

\* the entries of the images: data_offset, data_size, string_table_offset
FsImageEntry(data_offset, data_size, string_table_offset) ==
    [data_offset |-> data_offset, data_size |-> data_size,
     string_table_offset |-> string_table_offset]

FsImageEntries ==
    { FsImageEntry(0, 3, 0), FsImageEntry(3, 3, 2), FsImageEntry(2, 1, 0),
      FsImageEntry(0, 0, 3), FsImageEntry(4, 4, 4), FsImageEntry(1, 2, 5),
      FsImageEntry(OffsetMod - 4, 2, 0), FsImageEntry(1, OffsetMod - 1, 2) }

\* string tables: a, b; a, a; a, then a name that is not UTF-8; ab, b without NUL
FsStringTables ==
    { <<97, 0, 98, 0>>, <<97, 0, 97, 0>>, <<97, 0, 255, 0>>, <<97, 98, 0, 98>> }

FsNames == { <<>>, <<97>>, <<98>>, <<97, 98>> }

FsInit ==
    /\ overflowChecks \in BOOLEAN
    /\ SubIdle
    /\ CtrIdle
    /\ NcaIdle
    /\ \E parser \in {"Pfs0", "Hfs0"}, magic \in {"PFS0", "HFS0"}, num_files \in 0..MaxFiles,
          string_table \in FsStringTables :
          \E entries \in [1..num_files -> FsImageEntries] :
             LET full == (IF parser = "Pfs0"
                          THEN Pfs0HeaderLen + Pfs0EntryLen * num_files
                          ELSE Hfs0HeaderLen + Hfs0EntryLen * num_files)
                         + Len(string_table) + FsDataLen
             IN \E len \in {full, full - 4, 18} :
                   img = [parser |-> parser, magic |-> magic, num_files |-> num_files,
                          str_table_size |-> Len(string_table), entries |-> entries,
                          string_table |-> string_table, len |-> len]
    /\ obj = <<>>
    /\ out = FsResult("none")

Pfs0ReadFileAny == \E vpath \in FsNames : Pfs0ReadFile(vpath)

Pfs0ReadBufAny == \E i \in 1..MaxFiles : Pfs0ReadBuf(i)

Pfs0CreateReaderAny == \E i \in 1..MaxFiles : Pfs0CreateReader(i)

Hfs0GetFileAny == \E name \in FsNames : Hfs0GetFileCall(name)

FsNext ==
    \/ Pfs0FromReader
    \/ Hfs0NewHfs0
    \/ Pfs0ReadFileAny
    \/ Pfs0ReadBufAny
    \/ Pfs0CreateReaderAny
    \/ Hfs0ListFilesCall
    \/ Hfs0GetFileAny

SpecFs == FsInit /\ [][FsNext]_vars

----------------------------------------------------------------------------
(* Xci *)

\* the key area in front of a full image
XciKeyAreaLen == 4096

\* the header's signature, in front of the magic
XciSignatureLen == 256

\* where Xci::new looks for the magic of a full image
XciFullMagicOffset == 4352

\* header_offset of Xci::new for a full image
XciFullHeaderOffset == 256

\* the bytes of an XciHeader
XciHeaderLen == 512

\* the certificate, from the header
XciCertOffset == 28672

MEDIA_SIZE == 512

\* the fields of XciHeader the operations use; enums_ok: rom_size and
\* gamecard_flags hold values of their enums
XciHeader(package_id, hfs0_offset, valid_data_end_address, enums_ok) ==
    [package_id |-> package_id, hfs0_offset |-> hfs0_offset,
     valid_data_end_address |-> valid_data_end_address, enums_ok |-> enums_ok]

\* an image is a card (its header, its magic, its root HFS0, its certificate),
\* cut to card_len bytes, behind a key area when the layout is "full"
XciBase(image) == IF image.layout = "full" THEN XciKeyAreaLen ELSE 0

XciImageLen(image) == XciBase(image) + image.card_len

\* whether the four bytes at off are "HEAD"
XciMagicAt(image, off) ==
    IF off = XciBase(image) + XciSignatureLen THEN image.card.magic = "HEAD"
    ELSE IF off < XciBase(image) THEN off \in image.key_area.heads
    ELSE FALSE

\* the header fields read at off
XciHeaderAt(image, off) ==
    IF off = XciBase(image) THEN image.card.header ELSE image.key_area.header

\* whether a GamecardCertificate parses at off
XciCertAt(image, off) ==
    /\ off = XciBase(image) + XciCertOffset
    /\ image.card.cert
    /\ XciImageLen(image) >= off + XciHeaderLen

\* the HFS0 found at off, read through a window of size bytes
XciHfs0At(image, off, size) ==
    LET behind == IF XciImageLen(image) > off THEN XciImageLen(image) - off ELSE 0
        avail == Min(size, behind)
    IN
    IF off = XciBase(image) + image.card.header.hfs0_offset
    THEN [image.card.root EXCEPT !.len = Min(avail, image.card.root.len)]
    ELSE [image.card.root EXCEPT !.len = avail, !.magic = "none"]

\* Xci::new
XciNewResult(image) ==
    LET len == XciImageLen(image)
        at_0x100 == XciMagicAt(image, XciSignatureLen)
        is_full_xci == ~at_0x100 /\ XciMagicAt(image, XciFullMagicOffset)
        header_offset == IF is_full_xci THEN XciFullHeaderOffset ELSE 0
        header == XciHeaderAt(image, header_offset)
    IN IF len < XciSignatureLen + 4 THEN [res |-> "Io", xci |-> <<>>]
       ELSE IF ~at_0x100 /\ len < XciFullMagicOffset + 4 THEN [res |-> "Io", xci |-> <<>>]
       ELSE IF len < header_offset + XciHeaderLen THEN [res |-> "Io", xci |-> <<>>]
       ELSE IF ~XciMagicAt(image, header_offset + XciSignatureLen)
       THEN [res |-> "BadMagic", xci |-> <<>>]
       ELSE IF ~header.enums_ok THEN [res |-> "NoVariantMatch", xci |-> <<>>]
       ELSE [res |-> "Ok",
             xci |-> [kind |-> "Xci",
                      header |-> header,
                      key_area |-> IF is_full_xci THEN Some(image.key_area) ELSE None,
                      gamecard_cert |-> XciCertAt(image, header_offset + XciCertOffset)]]

get_hfs0_offset(xci) ==
    IF xci.key_area.some THEN XciKeyAreaLen + xci.header.hfs0_offset
    ELSE xci.header.hfs0_offset

\* Xci::list_hfs0_partitions: the window of the SubFile, the result of Hfs0::new
\* on it, and the listing of the Hfs0 it returns
XciListResult(xci, image) ==
    LET hfs0_offset == get_hfs0_offset(xci)
        size == xci.header.valid_data_end_address * MEDIA_SIZE
        root == XciHfs0At(image, hfs0_offset, size)
        res == Hfs0NewResult(root)
        listing == IF res = "Ok" THEN Hfs0ListFiles(Hfs0New(root)) ELSE FsResult(res)
    IN [FsResult(res) EXCEPT !.window = SubFileNew(hfs0_offset, hfs0_offset + size),
                             !.arg = listing.res,
                             !.files = listing.files]

\* the image of the same card in the other layout
XciTwin(image) ==
    [image EXCEPT !.layout = IF image.layout = "full" THEN "trimmed" ELSE "full"]

XciNew ==
    /\ img.parser = "Xci"
    /\ out.op = "none"
    /\ LET r == XciNewResult(img) IN
       /\ out' = [FsResult(r.res) EXCEPT !.op = "new"]
       /\ obj' = r.xci
    /\ UNCHANGED img
    /\ FsIdleOthers

XciListHfs0Partitions ==
    /\ FsOpened("Xci")
    /\ out' = [XciListResult(obj, img) EXCEPT !.op = "list_hfs0_partitions"]
    /\ UNCHANGED <<img, obj>>
    /\ FsIdleOthers

\* the root HFS0 of the cards: up to MaxFiles partitions named a and b
XciRoots ==
    { [parser |-> "Hfs0", magic |-> magic, num_files |-> num_files,
       str_table_size |-> 4, entries |-> entries, string_table |-> <<97, 0, 98, 0>>,
       len |-> Hfs0HeaderLen + Hfs0EntryLen * num_files + 4 + FsDataLen] :
         magic \in {"HFS0", "none"}, num_files \in {0, MaxFiles},
         entries \in { [i \in 1..MaxFiles |-> FsImageEntry(3 * (i - 1), 3, (2 * (i - 1)) % 4)],
                       [i \in 1..MaxFiles |-> FsImageEntry(i, 2, (2 * i) % 4)] } }

XciCards ==
    { [magic |-> magic, header |-> XciHeader(package_id, hfs0_offset, valid_end, enums_ok),
       root |-> root, cert |-> cert] :
         magic \in {"HEAD", "none"}, package_id \in {1}, hfs0_offset \in {32768, 61440},
         valid_end \in {0, 128}, enums_ok \in BOOLEAN, root \in XciRoots,
         cert \in BOOLEAN }

\* the key areas: "HEAD" nowhere, or where Xci::new looks at the image
XciKeyAreas ==
    { [heads |-> heads, header |-> XciHeader(2, 0, 0, TRUE)] :
         heads \in { {}, {XciSignatureLen}, {XciSignatureLen + XciFullHeaderOffset} } }

\* the cards are whole, cut inside their header, or cut behind it
XciCardLens == { 128, XciHeaderLen + 8, 65536 }

XciInit ==
    /\ overflowChecks \in BOOLEAN
    /\ SubIdle
    /\ CtrIdle
    /\ NcaIdle
    /\ \E layout \in {"full", "trimmed"}, card \in XciCards, key_area \in XciKeyAreas,
          card_len \in XciCardLens :
          img = [parser |-> "Xci", layout |-> layout, card |-> card, key_area |-> key_area,
                 card_len |-> card_len]
    /\ obj = <<>>
    /\ out = FsResult("none")

XciNext ==
    \/ XciNew
    \/ XciListHfs0Partitions

SpecXci == XciInit /\ [][XciNext]_vars

----------------------------------------------------------------------------
(* RomFs *)

\* RomFs::INVALID_ENTRY, u32::MAX: the one offset that is no offset
INVALID_ENTRY == -1

\* bitwise exclusive or of two naturals
RECURSIVE BitXor(_, _)
BitXor(a, b) ==
    IF a = 0 THEN b
    ELSE IF b = 0 THEN a
    ELSE 2 * BitXor(a \div 2, b \div 2) + ((a + b) % 2)

\* a u32 as its two 16-bit halves
HalfMod == 65536

U32(hi, lo) == [hi |-> hi, lo |-> lo]

\* u32::rotate_right(5)
RotateRight5(h) ==
    U32((h.hi \div 32) + (h.lo % 32) * (HalfMod \div 32),
        (h.lo \div 32) + (h.hi % 32) * (HalfMod \div 32))

\* the seed of compute_hash
HashSeed == 123456789

RECURSIVE HashBytes(_, _, _)
HashBytes(hash, name, i) ==
    IF i > Len(name) THEN hash
    ELSE LET rotated == RotateRight5(hash)
         IN HashBytes(U32(rotated.hi, BitXor(rotated.lo, name[i])), name, i + 1)

\* RomFs::compute_hash for table_size > 0 (parent below 2^31)
compute_hash(parent, name, table_size) ==
    LET seeded == BitXor(parent, HashSeed)
        hash == HashBytes(U32(seeded \div HalfMod, seeded % HalfMod), name, 1)
    IN ((hash.hi % table_size) * (HalfMod % table_size) + (hash.lo % table_size)) % table_size

\* the result of a lookup, with the offset, the entry or the offsets it found;
\* res is "Ok", the Error variant, "panic", or "diverges" for a call that never
\* returns
RomFsResult(res) ==
    [op |-> "none", path |-> <<>>, res |-> res, cause |-> "none", offset |-> INVALID_ENTRY,
     entry |-> <<>>, dir_offsets |-> <<>>, file_offsets |-> <<>>, exists |-> FALSE,
     files |-> <<>>]

\* RomFs::read_dir_entry: the entry that starts at the offset of the directory
\* table; behind the end of the source the read fails
read_dir_entry(fs, offset) ==
    IF offset \in DOMAIN fs.reader.dirs
    THEN [RomFsResult("Ok") EXCEPT !.entry = fs.reader.dirs[offset]]
    ELSE RomFsResult("Io")

\* RomFs::read_file_entry: the entry that starts at the offset of the file table.
\* At an offset inside a record the name_size field is taken from bytes that
\* end in the bytes of the record's name: with the names of one byte used here
\* it is 0x6100 or more, beyond the end of the source, and read_exact fails
read_file_entry(fs, offset) ==
    IF offset \in DOMAIN fs.reader.files
    THEN [RomFsResult("Ok") EXCEPT !.entry = fs.reader.files[offset]]
    ELSE RomFsResult("Io")

EntryMatches_NameOnly(entry, parent_offset, name) == entry.name = name
\* the test of both chain walks: the entry of that name in that directory
EntryMatches(entry, parent_offset, name) ==
    entry.parent_offset = parent_offset /\ entry.name = name

\* the while loop of find_dir_in_parent; an offset seen twice is a loop that
\* never ends
RECURSIVE DirChain(_, _, _, _, _)
DirChain(fs, parent_offset, name, current_offset, seen) ==
    IF current_offset = INVALID_ENTRY THEN RomFsResult("NotFound")
    ELSE IF current_offset \in seen THEN RomFsResult("diverges")
    ELSE LET read == read_dir_entry(fs, current_offset) IN
         IF read.res # "Ok" THEN read
         ELSE IF EntryMatches(read.entry, parent_offset, name)
         THEN [RomFsResult("Ok") EXCEPT !.offset = current_offset]
         ELSE DirChain(fs, parent_offset, name, read.entry.hash_sibling_offset,
                       seen \cup {current_offset})

\* RomFs::find_dir_in_parent
find_dir_in_parent(fs, parent_offset, name) ==
    IF Len(fs.dir_hash_table) = 0 THEN RomFsResult("panic")
    ELSE LET hash == compute_hash(parent_offset, name, Len(fs.dir_hash_table))
         IN DirChain(fs, parent_offset, name, fs.dir_hash_table[hash + 1], {})

\* RomFs::find_dir on the parts of the path, from current_dir on
RECURSIVE FindDirFrom(_, _, _, _)
FindDirFrom(fs, path_parts, i, current_dir) ==
    IF i > Len(path_parts) THEN [RomFsResult("Ok") EXCEPT !.offset = current_dir]
    ELSE LET found == find_dir_in_parent(fs, current_dir, path_parts[i]) IN
         IF found.res = "Ok" THEN FindDirFrom(fs, path_parts, i + 1, found.offset)
         ELSE IF found.res \in {"panic", "diverges"} THEN found
         ELSE [RomFsResult("NotFound") EXCEPT !.cause = found.res]

\* RomFs::ROOT_DIR_OFFSET
ROOT_DIR_OFFSET == 0

\* RomFs::find_dir; a path is the sequence of its parts
find_dir(fs, path) == FindDirFrom(fs, path, 1, ROOT_DIR_OFFSET)

\* the while loop of find_file_in_dir
RECURSIVE FileChain(_, _, _, _, _)
FileChain(fs, parent_offset, name, current_offset, seen) ==
    IF current_offset = INVALID_ENTRY THEN RomFsResult("NotFound")
    ELSE IF current_offset \in seen THEN RomFsResult("diverges")
    ELSE LET read == read_file_entry(fs, current_offset) IN
         IF read.res # "Ok" THEN read
         ELSE IF EntryMatches(read.entry, parent_offset, name)
         THEN [read EXCEPT !.offset = current_offset]
         ELSE FileChain(fs, parent_offset, name, read.entry.hash_sibling_offset,
                        seen \cup {current_offset})

\* RomFs::find_file_in_dir
find_file_in_dir(fs, parent_offset, name) ==
    IF Len(fs.file_hash_table) = 0 THEN RomFsResult("panic")
    ELSE LET hash == compute_hash(parent_offset, name, Len(fs.file_hash_table))
         IN FileChain(fs, parent_offset, name, fs.file_hash_table[hash + 1], {})

\* the path without its file name
ParentPath(path) == SubSeq(path, 1, Len(path) - 1)

get_file_by_path_Strict(fs, path) ==
    IF path = <<>> THEN RomFsResult("InvalidData")
    ELSE LET parent == find_dir(fs, ParentPath(path)) IN
         IF parent.res = "Ok"
         THEN LET file == find_file_in_dir(fs, parent.offset, path[Len(path)]) IN
              IF file.res = "Ok" THEN [file EXCEPT !.entry = Some(file.entry)] ELSE file
         ELSE parent
\* RomFs::get_file_by_path: entry is the Option of an Ok
get_file_by_path(fs, path) ==
    IF path = <<>> THEN RomFsResult("InvalidData")
    ELSE LET parent == find_dir(fs, ParentPath(path)) IN
         IF parent.res = "Ok"
         THEN LET file == find_file_in_dir(fs, parent.offset, path[Len(path)]) IN
              IF file.res = "Ok" THEN [file EXCEPT !.entry = Some(file.entry)]
              ELSE IF file.res = "NotFound"
              THEN [RomFsResult("Ok") EXCEPT !.entry = None, !.cause = "file"]
              ELSE file
         ELSE IF parent.res = "NotFound"
         THEN [RomFsResult("Ok") EXCEPT !.entry = None, !.cause = parent.cause]
         ELSE parent

\* RomFs::file_exists: get_file_by_path(path).is_ok()
file_exists(fs, path) ==
    LET found == get_file_by_path(fs, path) IN
    IF found.res \in {"panic", "diverges"} THEN found
    ELSE [RomFsResult("Ok") EXCEPT !.exists = (found.res = "Ok")]

\* the for loop of list_files: offset runs over 0..file_hash_table.len() - 1,
\* and the entries whose read fails are left out
RECURSIVE ListFilesFrom(_, _, _)
ListFilesFrom(fs, offset, listed) ==
    IF offset >= Len(fs.file_hash_table) THEN listed
    ELSE LET read == read_file_entry(fs, offset) IN
         ListFilesFrom(fs, offset + 1,
                       IF read.res = "Ok"
                       THEN [listed EXCEPT !.files = Append(@, read.entry),
                                           !.file_offsets = Append(@, offset)]
                       ELSE listed)

\* RomFs::list_files, and VirtualFSExt::list_files on a clone
list_files(fs) == ListFilesFrom(fs, 0, RomFsResult("Ok"))

\* the two while loops of open_dir: the offsets pushed along the sibling links
RECURSIVE SiblingChain(_, _, _, _)
SiblingChain(fs, table, current, pushed) ==
    IF current = INVALID_ENTRY THEN [RomFsResult("Ok") EXCEPT !.dir_offsets = pushed]
    ELSE IF \E k \in 1..Len(pushed) : pushed[k] = current THEN RomFsResult("diverges")
    ELSE LET read == IF table = "dirs" THEN read_dir_entry(fs, current)
                     ELSE read_file_entry(fs, current)
         IN IF read.res # "Ok" THEN read
            ELSE SiblingChain(fs, table, read.entry.sibling_offset, Append(pushed, current))

\* RomFs::open_dir: the offsets of the iterator it returns
open_dir(fs, path) ==
    LET dir_offset == find_dir(fs, path) IN
    IF dir_offset.res # "Ok" THEN dir_offset
    ELSE LET dir_entry == read_dir_entry(fs, dir_offset.offset) IN
         IF dir_entry.res # "Ok" THEN dir_entry
         ELSE LET dirs == SiblingChain(fs, "dirs", dir_entry.entry.child_dir_offset, <<>>) IN
              IF dirs.res # "Ok" THEN dirs
              ELSE LET files == SiblingChain(fs, "files",
                                             dir_entry.entry.child_file_offset, <<>>)
                   IN IF files.res # "Ok" THEN files
                      ELSE [RomFsResult("Ok") EXCEPT !.offset = dir_offset.offset,
                                                     !.dir_offsets = dirs.dir_offsets,
                                                     !.file_offsets = files.dir_offsets]

\* the RomFsDirectoryIterator that open_dir returns: a clone of the RomFs, the
\* offsets and both indexes at 0
RomFsDirectoryIterator(fs, opened) ==
    [kind |-> "RomFsDirectoryIterator", romfs |-> fs, dir_offsets |-> opened.dir_offsets,
     file_offsets |-> opened.file_offsets, current_dir_index |-> 0, current_file_index |-> 0]

\* an item of next_dir and next_file: the name (and the size of a file) or the
\* error of the read
IterItem(read, sized) ==
    IF read.res = "Ok"
    THEN [res |-> "Ok", name |-> read.entry.name,
          size |-> IF sized THEN read.entry.data_size ELSE 0]
    ELSE [res |-> read.res, name |-> <<>>, size |-> 0]

\* RomFsDirectoryIterator::next_dir: the iterator after the call and the Option
\* it returns
next_dir(iter) ==
    IF iter.current_dir_index >= Len(iter.dir_offsets) THEN [iter |-> iter, ret |-> None]
    ELSE LET read == read_dir_entry(iter.romfs, iter.dir_offsets[iter.current_dir_index + 1])
         IN [iter |-> [iter EXCEPT !.current_dir_index = @ + 1],
             ret |-> Some(IterItem(read, FALSE))]

\* RomFsDirectoryIterator::next_file
next_file(iter) ==
    IF iter.current_file_index >= Len(iter.file_offsets) THEN [iter |-> iter, ret |-> None]
    ELSE LET read == read_file_entry(iter.romfs,
                                     iter.file_offsets[iter.current_file_index + 1])
         IN [iter |-> [iter EXCEPT !.current_file_index = @ + 1],
             ret |-> Some(IterItem(read, TRUE))]

rewind_DirsOnly(iter) == [iter EXCEPT !.current_dir_index = 0]
\* RomFsDirectoryIterator::rewind
rewind(iter) == [iter EXCEPT !.current_dir_index = 0, !.current_file_index = 0]

\* RomFsDirectoryIterator::dir_count and file_count
dir_count(iter) == Len(iter.dir_offsets)

file_count(iter) == Len(iter.file_offsets)

\* the names next_dir yields for the iterator of a directory
DirNamesOf(fs, opened) ==
    { read_dir_entry(fs, opened.dir_offsets[k]).entry.name :
        k \in { j \in 1..Len(opened.dir_offsets) :
                  read_dir_entry(fs, opened.dir_offsets[j]).res = "Ok" } }

\* the names next_file yields
FileNamesOf(fs, opened) ==
    { read_file_entry(fs, opened.file_offsets[k]).entry.name :
        k \in { j \in 1..Len(opened.file_offsets) :
                  read_file_entry(fs, opened.file_offsets[j]).res = "Ok" } }

\* walking the tree from the root with open_dir: the directory of the path is
\* listed, part by part
RECURSIVE WalkFindsDir(_, _)
WalkFindsDir(fs, path) ==
    IF path = <<>> THEN TRUE
    ELSE /\ WalkFindsDir(fs, ParentPath(path))
         /\ LET opened == open_dir(fs, ParentPath(path)) IN
            /\ opened.res = "Ok"
            /\ path[Len(path)] \in DirNamesOf(fs, opened)

\* the walk lists a file under the path
WalkFindsFile(fs, path) ==
    /\ path # <<>>
    /\ WalkFindsDir(fs, ParentPath(path))
    /\ LET opened == open_dir(fs, ParentPath(path)) IN
       /\ opened.res = "Ok"
       /\ path[Len(path)] \in FileNamesOf(fs, opened)

\* RomFs::MAX_REASONABLE_HEADER_SIZE and MAX_REASONABLE_TABLE_SIZE
MAX_REASONABLE_HEADER_SIZE == 268435456

MAX_REASONABLE_TABLE_SIZE == 268435456

\* the bytes of a RomFsHeader
RomFsHeaderLen == 80

\* std::mem::size_of::<u32>()
HashSlotLen == 4

\* RomFs::from_reader: the error, or "Ok"
RomFsFromReaderResult(image) ==
    IF image.len < RomFsHeaderLen THEN "InvalidData"
    ELSE IF image.header.header_size = 0
            \/ image.header.header_size > MAX_REASONABLE_HEADER_SIZE THEN "InvalidData"
    ELSE IF image.header.dir_hash_table_size > MAX_REASONABLE_TABLE_SIZE THEN "InvalidData"
    ELSE IF image.header.file_hash_table_size > MAX_REASONABLE_TABLE_SIZE THEN "InvalidData"
    ELSE IF image.header.dir_hash_table_offset = 0 THEN "InvalidData"
    ELSE IF image.header.file_hash_table_offset = 0 THEN "InvalidData"
    ELSE IF image.header.dir_hash_table_size \div HashSlotLen > Len(image.dir_hash_table)
    THEN "BinaryParser"
    ELSE IF image.header.file_hash_table_size \div HashSlotLen > Len(image.file_hash_table)
    THEN "BinaryParser"
    ELSE "Ok"

\* the RomFs that from_reader returns
RomFsNew(image) ==
    [kind |-> "RomFs",
     reader |-> image,
     header |-> image.header,
     dir_hash_table |-> SubSeq(image.dir_hash_table, 1,
                               image.header.dir_hash_table_size \div HashSlotLen),
     file_hash_table |-> SubSeq(image.file_hash_table, 1,
                                image.header.file_hash_table_size \div HashSlotLen)]

RomFsFromReader ==
    /\ img.parser = "RomFs"
    /\ out.op = "none"
    /\ LET res == RomFsFromReaderResult(img) IN
       /\ out' = [RomFsResult(res) EXCEPT !.op = "from_reader"]
       /\ obj' = IF res = "Ok" THEN RomFsNew(img) ELSE obj
    /\ UNCHANGED img
    /\ FsIdleOthers

\* the RomFs is open and no call has failed to return
RomFsOpened == obj # <<>> /\ obj.kind = "RomFs" /\ out.res \notin {"panic", "diverges"}

RomFsFindDir(path) ==
    /\ RomFsOpened
    /\ out' = [find_dir(obj, path) EXCEPT !.op = "find_dir", !.path = path]
    /\ UNCHANGED <<img, obj>>
    /\ FsIdleOthers

RomFsGetFileByPath(path) ==
    /\ RomFsOpened
    /\ out' = [get_file_by_path(obj, path) EXCEPT !.op = "get_file_by_path", !.path = path]
    /\ UNCHANGED <<img, obj>>
    /\ FsIdleOthers

RomFsOpenDir(path) ==
    /\ RomFsOpened
    /\ out' = [open_dir(obj, path) EXCEPT !.op = "open_dir", !.path = path]
    /\ UNCHANGED <<img, obj>>
    /\ FsIdleOthers

RomFsFileExists(path) ==
    /\ RomFsOpened
    /\ out' = [file_exists(obj, path) EXCEPT !.op = "file_exists", !.path = path]
    /\ UNCHANGED <<img, obj>>
    /\ FsIdleOthers

RomFsListFiles ==
    /\ RomFsOpened
    /\ out' = [list_files(obj) EXCEPT !.op = "list_files"]
    /\ UNCHANGED <<img, obj>>
    /\ FsIdleOthers

\* what the caller of an iterator has seen: the last call, the items of next_dir and of next_file since the last rewind (or open_dir), the
\* longest such sequences of the passes before, and the counts at open_dir
IterSeen(iter) ==
    [op |-> "open_dir", res |-> "Ok", dirs |-> <<>>, files |-> <<>>,
     first_dirs |-> <<>>, first_files |-> <<>>, rewound |-> FALSE,
     counts |-> <<dir_count(iter), file_count(iter)>>,
     opened_counts |-> <<dir_count(iter), file_count(iter)>>]

\* open_dir that returns its iterator to the caller
RomFsOpenDirIterator(path) ==
    /\ RomFsOpened
    /\ LET opened == open_dir(obj, path) IN
       IF opened.res = "Ok"
       THEN /\ obj' = RomFsDirectoryIterator(obj, opened)
            /\ out' = IterSeen(RomFsDirectoryIterator(obj, opened))
       ELSE /\ obj' = obj
            /\ out' = [opened EXCEPT !.op = "open_dir", !.path = path]
    /\ UNCHANGED img
    /\ FsIdleOthers

IterOpened == obj # <<>> /\ obj.kind = "RomFsDirectoryIterator"

\* calls of next_dir or next_file followed between two rewinds
MaxPassCalls == 3

RomFsIterNextDir ==
    /\ IterOpened
    /\ Len(out.dirs) < MaxPassCalls
    /\ LET next == next_dir(obj) IN
       /\ obj' = next.iter
       /\ out' = [out EXCEPT !.op = "next_dir",
                             !.dirs = Append(@, next.ret)]
    /\ UNCHANGED img
    /\ FsIdleOthers

RomFsIterNextFile ==
    /\ IterOpened
    /\ Len(out.files) < MaxPassCalls
    /\ LET next == next_file(obj) IN
       /\ obj' = next.iter
       /\ out' = [out EXCEPT !.op = "next_file",
                             !.files = Append(@, next.ret)]
    /\ UNCHANGED img
    /\ FsIdleOthers

Longer(a, b) == IF Len(b) > Len(a) THEN b ELSE a

RomFsIterRewind ==
    /\ IterOpened
    /\ obj' = rewind(obj)
    /\ out' = [out EXCEPT !.op = "rewind", !.rewound = TRUE,
                          !.first_dirs = Longer(@, out.dirs),
                          !.first_files = Longer(@, out.files),
                          !.dirs = <<>>, !.files = <<>>]
    /\ UNCHANGED img
    /\ FsIdleOthers

RomFsIterCounts ==
    /\ IterOpened
    /\ out' = [out EXCEPT !.op = "counts",
                          !.counts = <<dir_count(obj), file_count(obj)>>]
    /\ UNCHANGED <<img, obj>>
    /\ FsIdleOthers

\* the smallest offset of a set, INVALID_ENTRY for none
FirstOf(offsets) ==
    IF offsets = {} THEN INVALID_ENTRY
    ELSE CHOOSE x \in offsets : \A y \in offsets : x <= y

NextOf(offsets, o) == FirstOf({x \in offsets : x > o})

\* a directory tree: for each entry offset the parent and the name (and the data
\* of a file); the root directory is its own parent
DirChildren(tree, d) ==
    {o \in DOMAIN tree.dirs : o # ROOT_DIR_OFFSET /\ tree.dirs[o].parent_offset = d}

FileChildren(tree, d) == {o \in DOMAIN tree.files : tree.files[o].parent_offset = d}

DirBucket(tree, table_size, o) ==
    {x \in DOMAIN tree.dirs :
        compute_hash(tree.dirs[x].parent_offset, tree.dirs[x].name, table_size)
          = compute_hash(tree.dirs[o].parent_offset, tree.dirs[o].name, table_size)}

FileBucket(tree, table_size, o) ==
    {x \in DOMAIN tree.files :
        compute_hash(tree.files[x].parent_offset, tree.files[x].name, table_size)
          = compute_hash(tree.files[o].parent_offset, tree.files[o].name, table_size)}

\* the image of a tree: sibling and child links in offset order, and hash tables
\* of the given numbers of buckets with their hash_sibling chains
RomFsBuild(tree, dir_buckets, file_buckets) ==
    [parser |-> "RomFs",
     len |-> RomFsHeaderLen + HashSlotLen * (dir_buckets + file_buckets),
     header |-> [header_size |-> RomFsHeaderLen,
                 dir_hash_table_offset |-> RomFsHeaderLen,
                 dir_hash_table_size |-> HashSlotLen * dir_buckets,
                 file_hash_table_offset |-> RomFsHeaderLen + HashSlotLen * dir_buckets,
                 file_hash_table_size |-> HashSlotLen * file_buckets],
     dir_hash_table |-> [k \in 1..dir_buckets |->
        FirstOf({o \in DOMAIN tree.dirs :
                   compute_hash(tree.dirs[o].parent_offset, tree.dirs[o].name, dir_buckets)
                     = k - 1})],
     file_hash_table |-> [k \in 1..file_buckets |->
        FirstOf({o \in DOMAIN tree.files :
                   compute_hash(tree.files[o].parent_offset, tree.files[o].name, file_buckets)
                     = k - 1})],
     dirs |-> [o \in DOMAIN tree.dirs |->
        [parent_offset |-> tree.dirs[o].parent_offset,
         sibling_offset |-> IF o = ROOT_DIR_OFFSET THEN INVALID_ENTRY
                            ELSE NextOf(DirChildren(tree, tree.dirs[o].parent_offset), o),
         child_dir_offset |-> FirstOf(DirChildren(tree, o)),
         child_file_offset |-> FirstOf(FileChildren(tree, o)),
         hash_sibling_offset |-> NextOf(DirBucket(tree, dir_buckets, o), o),
         name |-> tree.dirs[o].name]],
     files |-> [o \in DOMAIN tree.files |->
        [parent_offset |-> tree.files[o].parent_offset,
         sibling_offset |-> NextOf(FileChildren(tree, tree.files[o].parent_offset), o),
         data_offset |-> tree.files[o].data_offset,
         data_size |-> tree.files[o].data_size,
         hash_sibling_offset |-> NextOf(FileBucket(tree, file_buckets, o), o),
         name |-> tree.files[o].name]]]

\* the tree an image describes: its entries without their links
TreeOf(image) ==
    [dirs |-> [o \in DOMAIN image.dirs |->
                 [parent_offset |-> image.dirs[o].parent_offset, name |-> image.dirs[o].name]],
     files |-> [o \in DOMAIN image.files |->
                  [parent_offset |-> image.files[o].parent_offset,
                   name |-> image.files[o].name,
                   data_offset |-> image.files[o].data_offset,
                   data_size |-> image.files[o].data_size]]]

\* the parent of every entry is a directory of the image, and links, hash tables
\* and header are those of the tree
WellFormedRomFs(image) ==
    /\ Len(image.dir_hash_table) > 0
    /\ Len(image.file_hash_table) > 0
    /\ \A o \in DOMAIN image.dirs : image.dirs[o].parent_offset \in DOMAIN image.dirs
    /\ \A o \in DOMAIN image.files : image.files[o].parent_offset \in DOMAIN image.dirs
    /\ image = RomFsBuild(TreeOf(image), Len(image.dir_hash_table),
                          Len(image.file_hash_table))

DirOf(parent_offset, name) == [parent_offset |-> parent_offset, name |-> name]

FileOf(parent_offset, name, data_offset, data_size) ==
    [parent_offset |-> parent_offset, name |-> name, data_offset |-> data_offset,
     data_size |-> data_size]

\* the bytes of a directory entry and of a file entry with a name of one byte,
\* and of the root directory entry
DirEntryLen == 28

FileEntryLen == 36

RootEntryLen == 24

\* /b, /a/b, /a/c;  /a/b/c, /a;  /a, /b and no directory
RomFsTrees ==
    { [dirs |-> (0 :> DirOf(0, <<>>)) @@ (RootEntryLen :> DirOf(0, <<97>>)),
       files |-> (0 :> FileOf(0, <<98>>, 0, 4))
                 @@ (FileEntryLen :> FileOf(RootEntryLen, <<98>>, 4, 4))
                 @@ (2 * FileEntryLen :> FileOf(RootEntryLen, <<99>>, 8, 2))],
      [dirs |-> (0 :> DirOf(0, <<>>)) @@ (RootEntryLen :> DirOf(0, <<97>>))
                @@ (RootEntryLen + DirEntryLen :> DirOf(RootEntryLen, <<98>>)),
       files |-> (0 :> FileOf(RootEntryLen + DirEntryLen, <<99>>, 0, 4))
                 @@ (FileEntryLen :> FileOf(0, <<97>>, 4, 0))],
      [dirs |-> (0 :> DirOf(0, <<>>)),
       files |-> (0 :> FileOf(0, <<97>>, 0, 1)) @@ (FileEntryLen :> FileOf(0, <<98>>, 1, 1))] }

\* buckets of a hash table
MaxBuckets == 2

\* an offset behind the end of the source
BadOffset == 4096

\* the images that differ from a built image in one link, one parent, one slot
\* of a hash table or one field of the header
RomFsTampered(image) ==
    LET dir_links == DOMAIN image.dirs \cup {INVALID_ENTRY, BadOffset}
        file_links == DOMAIN image.files \cup {INVALID_ENTRY, BadOffset}
    IN    { [image EXCEPT !.dirs[o][f] = v] :
               o \in DOMAIN image.dirs,
               f \in {"sibling_offset", "child_dir_offset", "hash_sibling_offset"},
               v \in dir_links }
     \cup { [image EXCEPT !.dirs[o].child_file_offset = v] :
               o \in DOMAIN image.dirs, v \in file_links }
     \cup { [image EXCEPT !.files[o][f] = v] :
               o \in DOMAIN image.files, f \in {"sibling_offset", "hash_sibling_offset"},
               v \in file_links }
     \cup { [image EXCEPT !.files[o].parent_offset = v] :
               o \in DOMAIN image.files, v \in DOMAIN image.dirs }
     \cup { [image EXCEPT !.dir_hash_table[k] = v] :
               k \in 1..Len(image.dir_hash_table), v \in dir_links }
     \cup { [image EXCEPT !.file_hash_table[k] = v] :
               k \in 1..Len(image.file_hash_table), v \in file_links }
     \cup { [image EXCEPT !.header[f] = v] :
               f \in {"header_size", "dir_hash_table_offset", "file_hash_table_offset",
                      "dir_hash_table_size", "file_hash_table_size"},
               v \in {0, HashSlotLen - 1, BadOffset, MAX_REASONABLE_TABLE_SIZE + 1} }

RomFsImages ==
    UNION { {image} \cup RomFsTampered(image) :
              image \in { RomFsBuild(tree, dir_buckets, file_buckets) :
                             tree \in RomFsTrees, dir_buckets \in 1..MaxBuckets,
                             file_buckets \in 1..MaxBuckets } }

\* paths, as their parts
RomFsPaths ==
    { <<>>, << <<97>> >>, << <<98>> >>, << <<99>> >>, << <<97>>, <<98>> >>,
      << <<97>>, <<99>> >>, << <<98>>, <<99>> >>, << <<97>>, <<98>>, <<99>> >> }

RomFsInit ==
    /\ overflowChecks = FALSE
    /\ SubIdle
    /\ CtrIdle
    /\ NcaIdle
    /\ img \in RomFsImages
    /\ obj = <<>>
    /\ out = RomFsResult("none")

RomFsFindDirAny == \E path \in RomFsPaths : RomFsFindDir(path)

RomFsGetFileByPathAny == \E path \in RomFsPaths : RomFsGetFileByPath(path)

RomFsOpenDirAny == \E path \in RomFsPaths : RomFsOpenDir(path)

RomFsFileExistsAny == \E path \in RomFsPaths : RomFsFileExists(path)

RomFsNext ==
    \/ RomFsFromReader
    \/ RomFsFindDirAny
    \/ RomFsGetFileByPathAny
    \/ RomFsOpenDirAny

SpecRomFs == RomFsInit /\ [][RomFsNext]_vars

\* the calls that answer for the whole image or with a flag
RomFsListNext ==
    \/ RomFsFromReader
    \/ RomFsFileExistsAny
    \/ RomFsListFiles

SpecRomFsList == RomFsInit /\ [][RomFsListNext]_vars

\* the iterator of a directory: the images with MaxBuckets buckets in both hash
\* tables that from_reader accepts
RomFsIterImages ==
    { image \in RomFsImages :
        /\ RomFsFromReaderResult(image) = "Ok"
        /\ Len(RomFsNew(image).dir_hash_table) = MaxBuckets
        /\ Len(RomFsNew(image).file_hash_table) = MaxBuckets }

RomFsIterInit ==
    /\ overflowChecks = FALSE
    /\ SubIdle
    /\ CtrIdle
    /\ NcaIdle
    /\ img \in RomFsIterImages
    /\ obj = <<>>
    /\ out = RomFsResult("none")

RomFsOpenDirIteratorAny == \E path \in RomFsPaths : RomFsOpenDirIterator(path)

RomFsIterNext ==
    \/ RomFsFromReader
    \/ RomFsOpenDirIteratorAny
    \/ RomFsIterNextDir
    \/ RomFsIterNextFile
    \/ RomFsIterRewind
    \/ RomFsIterCounts

SpecRomFsIter == RomFsIterInit /\ [][RomFsIterNext]_vars

----------------------------------------------------------------------------
(* Cnmt *)

\* the bytes of a CnmtHeader, a PackagedContent and a ContentMetaEntry
CnmtHeaderLen == 32

PackagedContentLen == 56

ContentMetaEntryLen == 16

\* the fields of a PackagedContent: hash, content_id, size
ContentHashLen == 32

ContentIdLen == 16

ContentSizeLen == 6

\* ContentMetaType: the values of the enum
ContentMetaTypes == {0, 1, 2, 3, 4, 5, 128, 129, 130, 131, 132}

\* PackagedContentType
PackagedContentTypes == 0..6

\* the bytes of an image behind its header
CnmtByte(image, pos) == (pos * 3 + image.seed) % 8

CnmtBytes(image, pos, n) == [i \in 1..n |-> CnmtByte(image, pos + i - 1)]

\* the bytes of the extended header that from_reader reads for a meta_type
ExtendedHeaderLen(header) ==
    CASE header.meta_type = 128 -> 16
      [] header.meta_type = 129 -> 24
      [] header.meta_type = 130 -> 24
      [] header.meta_type = 131 -> 16
      [] header.meta_type = 3 -> 4
      [] OTHER -> header.extended_header_size

ExtendedHeaderKind(header) ==
    CASE header.meta_type = 128 -> "Application"
      [] header.meta_type = 129 -> "Patch"
      [] header.meta_type = 130 -> "Addon"
      [] header.meta_type = 131 -> "Delta"
      [] header.meta_type = 3 -> "SystemUpdate"
      [] OTHER -> "Unknown"

PackagedContentSize_Eight(image, pos) == CnmtBytes(image, pos, ContentSizeLen + 2)
\* PackagedContentInfo.size: the six bytes at pos as a u64, in its little-endian
\* bytes
PackagedContentSize(image, pos) == CnmtBytes(image, pos, ContentSizeLen) \o <<0, 0>>

\* PackagedContent::read at pos
PackagedContent(image, pos) ==
    [hash |-> CnmtBytes(image, pos, ContentHashLen),
     info |-> [content_id |-> CnmtBytes(image, pos + ContentHashLen, ContentIdLen),
               size |-> PackagedContentSize(image, pos + ContentHashLen + ContentIdLen),
               content_type |-> CnmtByte(image, pos + ContentHashLen + ContentIdLen
                                                  + ContentSizeLen),
               id_offset |-> CnmtByte(image, pos + ContentHashLen + ContentIdLen
                                               + ContentSizeLen + 1)]]

\* PackagedContent::read at pos: "Ok", or the error of the field that fails first
PackagedContentRead(image, pos) ==
    LET type_pos == pos + ContentHashLen + ContentIdLen + ContentSizeLen IN
    IF type_pos + 1 > image.len THEN "Io"
    ELSE IF CnmtByte(image, type_pos) \notin PackagedContentTypes THEN "NoVariantMatch"
    ELSE IF pos + PackagedContentLen > image.len THEN "Io"
    ELSE "Ok"

\* ContentMetaEntry::read at pos: title_id, version, meta_type, attributes and two
\* bytes of padding
ContentMetaEntry(image, pos) ==
    [title_id |-> CnmtBytes(image, pos, 8),
     version |-> CnmtBytes(image, pos + 8, 4),
     meta_type |-> CnmtByte(image, pos + 12),
     attributes |-> CnmtByte(image, pos + 13)]

CnmtResult(res) == [op |-> "none", res |-> res, arg |-> 0, entry |-> None]

\* Cnmt::from_reader: the error of the first read that fails, or "Ok"
CnmtFromReaderResult(image) ==
    LET content_start_pos == CnmtHeaderLen + image.header.extended_header_size
        meta_start_pos == content_start_pos
                            + PackagedContentLen * image.header.total_content_entries
        failed == {i \in 1..image.header.total_content_entries :
                     PackagedContentRead(image, content_start_pos
                                                  + PackagedContentLen * (i - 1)) # "Ok"}
    IN IF image.len < CnmtHeaderLen THEN "Io"
       ELSE IF image.header.meta_type \notin ContentMetaTypes
               \/ image.header.meta_platform # 0 THEN "NoVariantMatch"
       ELSE IF image.len < CnmtHeaderLen + ExtendedHeaderLen(image.header) THEN "Io"
       ELSE IF failed # {}
       THEN PackagedContentRead(image, content_start_pos + PackagedContentLen
                                         * ((CHOOSE i \in failed : \A j \in failed : i <= j) - 1))
       ELSE IF meta_start_pos + ContentMetaEntryLen * image.header.total_content_meta_entries
                 > image.len
       THEN "Io"
       ELSE "Ok"

\* the Cnmt that from_reader returns
CnmtNew(image) ==
    LET content_start_pos == CnmtHeaderLen + image.header.extended_header_size
        meta_start_pos == content_start_pos
                            + PackagedContentLen * image.header.total_content_entries
    IN [kind |-> "Cnmt",
        header |-> image.header,
        extended_header |-> [kind |-> ExtendedHeaderKind(image.header),
                             bytes |-> CnmtBytes(image, CnmtHeaderLen,
                                                 ExtendedHeaderLen(image.header))],
        content_entries |-> [i \in 1..image.header.total_content_entries |->
            PackagedContent(image, content_start_pos + PackagedContentLen * (i - 1))],
        meta_entries |-> [i \in 1..image.header.total_content_meta_entries |->
            ContentMetaEntry(image, meta_start_pos + ContentMetaEntryLen * (i - 1))]]

\* Cnmt::get_content_entry_by_type: the first entry of the type
get_content_entry_by_type(cnmt, content_type) ==
    LET hits == {i \in 1..Len(cnmt.content_entries) :
                   cnmt.content_entries[i].info.content_type = content_type}
    IN IF hits = {} THEN None
       ELSE Some(cnmt.content_entries[CHOOSE i \in hits : \A j \in hits : i <= j])

CnmtFromReader ==
    /\ img.parser = "Cnmt"
    /\ out.op = "none"
    /\ LET res == CnmtFromReaderResult(img) IN
       /\ out' = [CnmtResult(res) EXCEPT !.op = "from_reader"]
       /\ obj' = IF res = "Ok" THEN CnmtNew(img) ELSE obj
    /\ UNCHANGED img
    /\ FsIdleOthers

CnmtGetContentEntryByType(content_type) ==
    /\ obj # <<>>
    /\ obj.kind = "Cnmt"
    /\ out' = [CnmtResult("Ok") EXCEPT !.op = "get_content_entry_by_type",
                                       !.arg = content_type,
                                       !.entry = get_content_entry_by_type(obj, content_type)]
    /\ UNCHANGED <<img, obj>>
    /\ FsIdleOthers

\* content entries and meta entries an image declares
MaxEntries == 2

\* the patterns of the bytes behind the header
MaxSeed == 3

CnmtHeaders ==
    { [meta_type |-> meta_type, meta_platform |-> meta_platform,
       extended_header_size |-> extended_header_size,
       total_content_entries |-> total_content_entries,
       total_content_meta_entries |-> total_content_meta_entries] :
         meta_type \in {128, 129, 1, 127}, meta_platform \in {0, 1},
         extended_header_size \in {0, 16, 24},
         total_content_entries \in 0..MaxEntries,
         total_content_meta_entries \in 0..MaxEntries }

\* the bytes the declared counts need
CnmtDeclaredLen(header) ==
    CnmtHeaderLen + header.extended_header_size
      + PackagedContentLen * header.total_content_entries
      + ContentMetaEntryLen * header.total_content_meta_entries

CnmtInit ==
    /\ overflowChecks = FALSE
    /\ SubIdle
    /\ CtrIdle
    /\ NcaIdle
    /\ \E header \in CnmtHeaders, seed \in 0..MaxSeed :
          \E len \in { CnmtDeclaredLen(header) + 8, CnmtDeclaredLen(header),
                       CnmtDeclaredLen(header) - 1, CnmtDeclaredLen(header) - ContentMetaEntryLen,
                       CnmtHeaderLen, CnmtHeaderLen - 1 } :
             img = [parser |-> "Cnmt", header |-> header, seed |-> seed, len |-> len]
    /\ obj = <<>>
    /\ out = CnmtResult("none")

CnmtGetContentEntryByTypeAny ==
    \E content_type \in PackagedContentTypes : CnmtGetContentEntryByType(content_type)

CnmtNext ==
    \/ CnmtFromReader
    \/ CnmtGetContentEntryByTypeAny

SpecCnmt == CnmtInit /\ [][CnmtNext]_vars

----------------------------------------------------------------------------
(* SubFile: claims *)

\* C4: for a SubFile created with start <= end, position() <= end - start in every
\* state reachable by any sequence of read and seek calls
C4_PositionWithinWindow ==
    \A h \in Handles : sf[h].position <= sf[h].end - sf[h].start

\* a refused seek issued after the position reached the end of a non-empty window
C4_Witness ==
    /\ sfOut.op = "seek"
    /\ sfOut.res = "invalid_input"
    /\ SubFileSize(sf[sfOut.h]) > 0
    /\ sf[sfOut.h].position = SubFileSize(sf[sfOut.h])

\* C5: a read at position p with a buffer of n bytes returns at most
\* min(n, (end - start) - p) bytes, byte i being the source byte at start + p + i;
\* the position advances by the returned count, and at p = end - start the read
\* returns 0 and leaves the source alone
C5_ReadRespectsWindow ==
    sfOut.op = "read" =>
        LET s == sfOut.pre[sfOut.h]
            p == s.position
        IN /\ sfOut.res = "ok"
           /\ sfOut.ret <= Min(sfOut.arg, SubFileSize(s) - p)
           /\ Len(sfOut.bytes) = sfOut.ret
           /\ \A i \in 1..sfOut.ret : sfOut.bytes[i] = SubSrcByte(s.start + p + i - 1)
           /\ sf[sfOut.h].position = p + sfOut.ret
           /\ (p = SubFileSize(s) => sfOut.ret = 0 /\ sfCursor = sfOut.preCursor)

\* a short count: the read stopped at the end of the window, before the buffer was full
C5_Witness ==
    /\ sfOut.op = "read"
    /\ sfOut.ret > 0
    /\ sfOut.ret < sfOut.arg
    /\ sfOut.pre[sfOut.h].start > 0
    /\ sf[sfOut.h].position = SubFileSize(sf[sfOut.h])

\* the target of a seek as the caller means it, in unbounded integers
SeekMathTarget(s, whence, off) ==
    CASE whence = "Start" -> off
      [] whence = "End" -> SubFileSize(s) + off
      [] whence = "Current" -> s.position + off

\* C6: a seek whose target lies beyond end - start, or before 0, fails with an
\* invalid-input error and leaves the position unchanged; a seek whose target is in
\* [0, end - start] succeeds and returns the new position, End(o) being (end - start) + o
C6_SeekContract ==
    sfOut.op = "seek" =>
        LET s == sfOut.pre[sfOut.h]
            target == SeekMathTarget(s, sfOut.whence, sfOut.arg)
        IN IF target < 0 \/ target > SubFileSize(s)
           THEN sfOut.res = "invalid_input" /\ sf[sfOut.h].position = s.position
           ELSE sfOut.res = "ok" /\ sfOut.ret = target /\ sf[sfOut.h].position = target

\* C7: the seek-then-read pair of a SubFile::read is atomic on the shared source, so
\* every read returns the bytes of its own window at its own position
C7_ReadPairAtomic ==
    sfOut.op = "read" =>
        LET s == sfOut.pre[sfOut.h] IN
        \A i \in 1..sfOut.ret : sfOut.bytes[i] = SubSrcByte(s.start + s.position + i - 1)

\* C8: whole calls on two SubFiles interleaved by one thread: a call changes only
\* its own SubFile's position, and a read returns what the source holds at
\* start + its own position, wherever the other SubFile left the shared cursor
C8_PositionsPerSubFile ==
    sfOut.op # "none" =>
        LET s == sfOut.pre[sfOut.h] IN
        /\ \A g \in Handles \ {sfOut.h} : sf[g] = sfOut.pre[g]
        /\ sfOut.op = "read" =>
              sfOut.bytes = SubSrcRead(s.start + s.position,
                                       Min(sfOut.arg, SubFileSize(s) - s.position))

\* a read that found the shared cursor where the other SubFile's read left it
C8_Witness ==
    /\ sfOut.op = "read"
    /\ sfOut.ret > 0
    /\ sfOut.preCursor # sfOut.pre[sfOut.h].start + sfOut.pre[sfOut.h].position
    /\ \E g \in Handles \ {sfOut.h} : sf[g].position > 0 /\ sfOut.preCursor = sf[g].start + sf[g].position

----------------------------------------------------------------------------
(* Aes128CtrReader: claims *)

\* length of the plaintext a reader sees: the source from base_offset on
CtrPlainLen(rd) == CtrSrcLen - rd.base_offset

\* C1: the source holding at base_offset the AES-128-CTR encryption of the plaintext
\* under IV (ctr << 64) | (absolute block offset >> 4), seek(Start(pos)) followed by a
\* read of n bytes returns plaintext[pos..pos+n] whenever pos + n <= len(plaintext),
\* for pos and n that are multiples of 16 or not
C1_CtrReadsPlaintext ==
    (ctrOut.op = "read" /\ ctrOut.afterSeekStart) =>
        LET rd == ctrOut.pre[ctrOut.r]
            pos == rd.offset - rd.base_offset
            n == ctrOut.arg
        IN pos + n <= CtrPlainLen(rd) =>
              /\ ctrOut.ret = n
              /\ ctrOut.bytes = [i \in 1..n |-> CtrPlain(rd.base_offset + pos + i - 1)]

\* a read of 17 bytes from a position misaligned to 16, over a misaligned base_offset
C1_Witness ==
    /\ ctrOut.op = "read"
    /\ ctrOut.afterSeekStart
    /\ ctrOut.arg = 17
    /\ ctrOut.pre[ctrOut.r].base_offset = 5
    /\ ctrOut.pre[ctrOut.r].offset = 5 + 15
    /\ ctrOut.bytes = [i \in 1..17 |-> CtrPlain(5 + 15 + i - 1)]

\* C2: after every successful read(buf) issued at logical position p, the reader's
\* logical position, and the source's position relative to base_offset, is
\* p + buf.len(), however many bytes the source delivered for the aligned window
C2_ReadAdvancesByBufLen ==
    ctrOut.op = "read" =>
        LET rd == ctrOut.pre[ctrOut.r]
            p == rd.offset - rd.base_offset
        IN /\ ctrRd[ctrOut.r].offset - rd.base_offset = p + ctrOut.arg
           /\ ctrCursor - rd.base_offset = p + ctrOut.arg

\* C3: reads of two readers over one SharedReader interleaved in any order: each
\* read returns the plaintext at the reader's own position, as if the reader were
\* the only user of the source
C3_SharedReadersIsolated ==
    ctrOut.op = "read" =>
        LET rd == ctrOut.pre[ctrOut.r] IN
        (rd.offset >= 0 /\ rd.offset + ctrOut.arg <= CtrSrcLen) =>
            ctrOut.bytes = [i \in 1..ctrOut.arg |-> CtrPlain(rd.offset + i - 1)]

----------------------------------------------------------------------------
(* Nca: key resolution in from_reader, section opening in prepare_fs_reader *)

HexDigits == <<"0", "1", "2", "3", "4", "5", "6", "7",
               "8", "9", "a", "b", "c", "d", "e", "f">>

HexDigit(d) == HexDigits[d + 1]

\* format!("{:02x}", v) of a u8: two digits, zero padded
Fmt02x(v) == <<HexDigit(v \div 16), HexDigit(v % 16)>>

\* format!("{:2x}", v) of a u8: width two, padded with a space
Fmt2x(v) == IF v < 16 THEN <<" ", HexDigit(v)>> ELSE Fmt02x(v)

\* a key name "<prefix>_<suffix>" of the keys file
KeyName(prefix, suffix) == [prefix |-> prefix, suffix |-> suffix]

NoKeyName == KeyName("", <<>>)

HeaderKeyName == KeyName("header_key", <<>>)

KeyAreaKeyPrefix(index) ==
    CASE index = "Application" -> "key_area_key_application"
      [] index = "Ocean" -> "key_area_key_ocean"
      [] index = "System" -> "key_area_key_system"

\* the name Keyset::get_key_area_key_<family>(idx) looks up; idx as u8
KeyAreaKeyName(index, idx) == KeyName(KeyAreaKeyPrefix(index), Fmt02x(idx % 256))

\* the name Keyset::get_title_kek(key_generation) looks up
TitleKekName(key_generation) == KeyName("titlekek", Fmt02x(key_generation % 256))

\* Keyset::get_key: the key of that exact name, if the keys file has it
KeysetHas(keyset, name) == name \in keyset

\* NcaHeader::get_key_generation: the higher field, less one when above 0
NcaHeader_get_key_generation(header) ==
    LET key_gen_old == header.key_generation_old
        key_gen == header.key_generation
        base_key_gen == IF key_gen_old < key_gen THEN key_gen ELSE key_gen_old
    IN IF base_key_gen > 0 THEN base_key_gen - 1 ELSE base_key_gen

\* Nca::get_key_generation: the higher field, less one when above 1
Nca_get_key_generation(n) ==
    LET key_gen_old == n.header.key_generation_old
        key_gen == n.header.key_generation
        base_key_gen == IF key_gen_old < key_gen THEN key_gen ELSE key_gen_old
    IN IF base_key_gen > 1 THEN base_key_gen - 1 ELSE base_key_gen

\* TitleKeys::decrypt_title_key: Ok when the database has the rights id
TitleKeysHas(title_keys, rights_id) == rights_id \in title_keys.keys

\* rights_id 0 is the all-zero rights id
has_rights_id(header) == header.rights_id # 0

\* the key names from_reader asks the keyset for while resolving the content key
FromReaderLookups(in) ==
    LET key_gen == NcaHeader_get_key_generation(in.header)
    IN IF has_rights_id(in.header)
       THEN IF in.title_keys.some THEN {TitleKekName(key_gen)} ELSE {}
       ELSE {KeyAreaKeyName(in.header.key_area_appkey_index, key_gen)}

BLOCK_SIZE == 512

\* get_block_offset: media units of 0x200 bytes to bytes
get_block_offset(offset) == BLOCK_SIZE * offset

FsEntry(start_offset, end_offset) == [start_offset |-> start_offset, end_offset |-> end_offset]

\* from_reader: the entry is skipped
FsEntryIsEmpty(entry) == entry.start_offset = 0 /\ entry.end_offset = 0

\* get_fs_offset: the entry counts as valid
FsEntryIsValid_Both(entry) == entry.start_offset # 0 /\ entry.end_offset # 0
FsEntryIsValid(entry) == entry.start_offset # 0 \/ entry.end_offset # 0

Region(offset, size) == [offset |-> offset, size |-> size]

\* hash data: regions are layer_regions of HierarchicalSha256 and
\* info_level_hash.levels of HierarchicalIntegrity
HashData(kind, regions) == [kind |-> kind, regions |-> regions]

\* a section header slot of the decrypted header; parses = FALSE: the slot's
\* bytes do not decode (an enum byte without a variant)
FsHeader(encryption_type, hash_data, ctr) ==
    [parses |-> TRUE, encryption_type |-> encryption_type, hash_data |-> hash_data,
     ctr |-> ctr]

\* from_reader: the slots of the non-empty entries from slot i on, in entry order
RECURSIVE ParseFsHeaders(_, _, _)
ParseFsHeaders(fs_entries, fs_slots, i) ==
    IF i > Len(fs_entries) THEN <<>>
    ELSE IF FsEntryIsEmpty(fs_entries[i]) THEN ParseFsHeaders(fs_entries, fs_slots, i + 1)
    ELSE <<fs_slots[i]>> \o ParseFsHeaders(fs_entries, fs_slots, i + 1)

\* from_reader: cursor.read_le()? fails on a non-empty entry's slot
FsHeadersParse(in) ==
    \A i \in 1..Len(in.header.fs_entries) :
        FsEntryIsEmpty(in.header.fs_entries[i]) \/ in.fs_slots[i].parses

\* the Nca from_reader builds: fs_headers, dec_title_key, dec_key_area and key_status
FromReaderNca(in) ==
    LET header == in.header
        key_gen == NcaHeader_get_key_generation(header)
        fs_headers == ParseFsHeaders(header.fs_entries, in.fs_slots, 1)
    IN IF has_rights_id(header)
       THEN LET resolved == /\ in.title_keys.some
                            /\ KeysetHas(in.keyset, TitleKekName(key_gen))
                            /\ TitleKeysHas(in.title_keys, header.rights_id)
            IN [header |-> header, fs_headers |-> fs_headers,
                dec_title_key |-> IF resolved THEN "Some" ELSE "None",
                dec_key_area |-> "default",
                key_status |-> resolved]
       ELSE LET found == KeysetHas(in.keyset,
                             KeyAreaKeyName(header.key_area_appkey_index, key_gen))
            IN [header |-> header, fs_headers |-> fs_headers,
                dec_title_key |-> "None",
                dec_key_area |-> IF found THEN "decrypted" ELSE "default",
                key_status |-> found]

\* Nca::filesystem_count
filesystem_count(n) == Len(n.fs_headers)

\* Nca::get_fs_offset
get_fs_offset(n, idx) ==
    IF idx >= Len(n.fs_headers) THEN None
    ELSE LET valid_entries == SelectSeq(n.header.fs_entries, FsEntryIsValid)
         IN IF idx >= Len(valid_entries) THEN None
            ELSE Some(get_block_offset(valid_entries[idx + 1].start_offset))

\* a result of an Nca call: the error or the reader returned (its origin in the
\* source, the size of its window where it has one, its counter)
NcaResult(res, msg, name) ==
    [res |-> res, msg |-> msg, name |-> name, origin |-> 0, size |-> 0, ctr |-> 0]

\* Nca::get_aes_ctr_decrypt_key: the key, or the key-lookup error and the key
\* name its message gives
get_aes_ctr_decrypt_key(n) ==
    IF has_rights_id(n.header)
    THEN IF n.dec_title_key = "Some"
         THEN NcaResult("Ok", "title_key", NoKeyName)
         ELSE NcaResult("KeyLookupError", "requires title key for rights ID", NoKeyName)
    ELSE IF ~n.key_status
         THEN NcaResult("KeyLookupError", "key area could not be decrypted",
                        KeyName(KeyAreaKeyPrefix(n.header.key_area_appkey_index),
                                Fmt2x(Nca_get_key_generation(n))))
         ELSE NcaResult("Ok", "key_area", NoKeyName)

\* levels.last().unwrap() of a HierarchicalIntegrity header panics on no levels
HashDataPanics(fs_header) ==
    fs_header.hash_data.kind = "HierarchicalIntegrity" /\ Len(fs_header.hash_data.regions) = 0

\* prepare_fs_reader: the region the payload offset and size are taken from
PayloadRegion(hash_data) ==
    IF hash_data.kind = "HierarchicalSha256"
    THEN hash_data.regions[1]
    ELSE hash_data.regions[Len(hash_data.regions)]

\* Nca::prepare_fs_reader(idx)
prepare_fs_reader(n, idx) ==
    IF idx >= Len(n.fs_headers)
    THEN NcaResult("InvalidState", "invalid filesystem index", NoKeyName)
    ELSE LET fs_header == n.fs_headers[idx + 1]
             fs_start_offset == get_fs_offset(n, idx)
         IN
         IF ~fs_start_offset.some
         THEN NcaResult("InvalidState", "failed to get filesystem offset", NoKeyName)
         ELSE IF HashDataPanics(fs_header)
         THEN NcaResult("panic", "unwrap on None", NoKeyName)
         ELSE LET fs_offset_abs == PayloadRegion(fs_header.hash_data).offset
                                       + fs_start_offset.value
                  fs_size == PayloadRegion(fs_header.hash_data).size
              IN
              CASE fs_header.encryption_type = "None" ->
                     [NcaResult("Ok", "SubFile", NoKeyName)
                         EXCEPT !.origin = fs_offset_abs, !.size = fs_size]
                [] fs_header.encryption_type = "AesCtr" ->
                     LET key == get_aes_ctr_decrypt_key(n)
                     IN IF key.res = "Ok"
                        THEN [NcaResult("Ok", "Aes128CtrReader", NoKeyName)
                                 EXCEPT !.origin = fs_offset_abs, !.ctr = fs_header.ctr]
                        ELSE key
                [] OTHER ->
                     NcaResult("InvalidData", "unsupported encryption type", NoKeyName)

\* what the last call returned, and the keyset names construction looked up
NoNcaOut == [op |-> "none", idx |-> 0, res |-> "none", msg |-> "", name |-> NoKeyName,
             origin |-> 0, size |-> 0, ctr |-> 0, lookups |-> {}]

NoDump == [state |-> "none", reader |-> "none", idx |-> 0, data |-> <<>>]

NcaHalted == ncaOut.res = "panic"

NcaIdleOthers == UNCHANGED <<overflowChecks, subVars, ctrVars, fmtVars>>

\* Nca::from_reader over a source holding a well-formed NcaHeader: the header
\* decryption panics without header_key, a section header that does not decode
\* fails the call, key resolution never does
NcaFromReader ==
    /\ ncaOut.op = "none"
    /\ IF ~KeysetHas(ncaIn.keyset, HeaderKeyName)
       THEN /\ nca' = nca
            /\ ncaOut' = [NoNcaOut EXCEPT !.op = "from_reader", !.res = "panic",
                                          !.msg = "header key not found"]
       ELSE IF ~FsHeadersParse(ncaIn)
       THEN /\ nca' = nca
            /\ ncaOut' = [NoNcaOut EXCEPT !.op = "from_reader", !.res = "BinaryParser",
                                          !.msg = "fs header"]
       ELSE /\ nca' = FromReaderNca(ncaIn)
            /\ ncaOut' = [NoNcaOut EXCEPT !.op = "from_reader", !.res = "Ok",
                                          !.lookups = FromReaderLookups(ncaIn)]
    /\ UNCHANGED <<ncaIn, dump>>
    /\ NcaIdleOthers

\* opening section idx of the constructed Nca
NcaOpen(idx) ==
    /\ nca # <<>>
    /\ ~NcaHalted
    /\ dump.state = "none"
    /\ LET r == prepare_fs_reader(nca, idx)
       IN ncaOut' = [op |-> "open", idx |-> idx, res |-> r.res, msg |-> r.msg,
                     name |-> r.name, origin |-> r.origin, size |-> r.size,
                     ctr |-> r.ctr, lookups |-> ncaOut.lookups]
    /\ UNCHANGED <<ncaIn, nca, dump>>
    /\ NcaIdleOthers

MaxKeyGen == 8

MaxSections == 2

KeyGenerations == 0..MaxKeyGen

KeyAreaIndexes == {"Application", "Ocean", "System"}

RightsIds == {0, 1}

Keysets ==
    { {},
      {HeaderKeyName},
      {HeaderKeyName, KeyAreaKeyName("Application", 0), TitleKekName(0)},
      {HeaderKeyName, KeyAreaKeyName("Application", 7), TitleKekName(7)},
      {HeaderKeyName, KeyAreaKeyName("Ocean", 1), KeyAreaKeyName("System", 1)} }

TitleKeyDbs == { [some |-> FALSE, keys |-> {}],
                 [some |-> TRUE, keys |-> {}],
                 [some |-> TRUE, keys |-> {1}] }

\* the four fs entries and header slots of an image whose first sections are
\* the given headers, laid out one after the other from media unit 6 on
FsLayout(headers) ==
    [fs_entries |-> [i \in 1..4 |-> IF i <= Len(headers) THEN FsEntry(5 + i, 6 + i)
                                                          ELSE FsEntry(0, 0)],
     fs_slots |-> [i \in 1..4 |-> IF i <= Len(headers) THEN headers[i]
                                  ELSE FsHeader("Auto", HashData("HierarchicalSha256",
                                                          <<Region(0, 0), Region(0, 0)>>), 0)]]

Sha256Data == HashData("HierarchicalSha256", <<Region(0, 32), Region(32, 64)>>)

IntegrityData == HashData("HierarchicalIntegrity", <<Region(0, 16), Region(16, 48)>>)

NoLevelsData == HashData("HierarchicalIntegrity", <<>>)

FsLayouts ==
    { FsLayout(<<>>),
      FsLayout(<<FsHeader("AesCtr", Sha256Data, 1), FsHeader("None", Sha256Data, 2)>>),
      FsLayout(<<FsHeader("None", IntegrityData, 1), FsHeader("AesCtr", IntegrityData, 2)>>),
      FsLayout(<<FsHeader("AesXts", Sha256Data, 1), FsHeader("AesCtrEx", IntegrityData, 2)>>),
      FsLayout(<<FsHeader("Auto", Sha256Data, 1),
                 FsHeader("AesCtrSkipLayerHash", IntegrityData, 2)>>),
      FsLayout(<<FsHeader("AesCtr", NoLevelsData, 1), FsHeader("None", NoLevelsData, 2)>>) }

\* the arguments of from_reader: header fields, keyset, title keys, section layout
NcaInitOver(gens, indexes, rights_ids, keysets, title_dbs, layouts) ==
    /\ overflowChecks = FALSE
    /\ SubIdle
    /\ CtrIdle
    /\ FmtIdle
    /\ \E old \in gens, gen \in gens, index \in indexes,
          rights_id \in rights_ids, keyset \in keysets, title_keys \in title_dbs,
          layout \in layouts :
          ncaIn = [header |-> [key_generation_old |-> old, key_generation |-> gen,
                               key_area_appkey_index |-> index, rights_id |-> rights_id,
                               fs_entries |-> layout.fs_entries],
                   keyset |-> keyset, title_keys |-> title_keys,
                   fs_slots |-> layout.fs_slots]
    /\ nca = <<>>
    /\ ncaOut = NoNcaOut
    /\ dump = NoDump

NcaInit == NcaInitOver(KeyGenerations, KeyAreaIndexes, RightsIds, Keysets, TitleKeyDbs, FsLayouts)

NcaOpenAny == \E idx \in 0..MaxSections : NcaOpen(idx)

NcaNext == NcaFromReader \/ NcaOpenAny

SpecNca == NcaInit /\ [][NcaNext]_vars

\* entries and slots for the section table: every entry empty, with only a start,
\* with only an end, or with both; slot i carries counter i, and in the second
\* set of slots the third slot does not decode
FsEntryChoices == {FsEntry(0, 0), FsEntry(0, 3), FsEntry(6, 0), FsEntry(6, 8)}

FsSlotSets ==
    { [i \in 1..4 |-> FsHeader(IF i % 2 = 1 THEN "None" ELSE "AesCtr", Sha256Data, i)],
      [i \in 1..4 |-> [FsHeader("None", IntegrityData, i) EXCEPT !.parses = (i # 3)]] }

FsTableLayouts ==
    { [fs_entries |-> entries, fs_slots |-> slots] :
          entries \in [1..4 -> FsEntryChoices], slots \in FsSlotSets }

NcaFsInit ==
    NcaInitOver({0}, {"Application"}, {0},
                {{HeaderKeyName, KeyAreaKeyName("Application", 0)}},
                {[some |-> FALSE, keys |-> {}]}, FsTableLayouts)

SpecNcaFs == NcaFsInit /\ [][NcaNext]_vars

\* Nca::decrypt_and_dump_fs(idx), up to its read_to_end: prepare_fs_reader and
\* the construction of the reader it returns
NcaDumpBegin(idx) ==
    /\ nca # <<>>
    /\ ~NcaHalted
    /\ dump.state = "none"
    /\ LET r == prepare_fs_reader(nca, idx)
           result == [op |-> "dump", idx |-> idx, res |-> r.res, msg |-> r.msg,
                      name |-> r.name, origin |-> r.origin, size |-> r.size,
                      ctr |-> r.ctr, lookups |-> ncaOut.lookups]
       IN /\ ncaOut' = result
          /\ IF r.res # "Ok"
             THEN /\ dump' = [NoDump EXCEPT !.state = "failed", !.idx = idx]
                  /\ UNCHANGED <<subVars, ctrVars>>
             ELSE /\ dump' = [NoDump EXCEPT !.state = "reading", !.reader = r.msg, !.idx = idx]
                  /\ IF r.msg = "SubFile"
                     THEN /\ sf' = <<SubFileNew(r.origin, r.origin + r.size)>>
                          /\ UNCHANGED <<sfCursor, sfOut, thr, ctrVars>>
                     ELSE /\ ctrRd' = <<Aes128CtrReaderNew(r.origin, r.ctr, ctrImg.key)>>
                          /\ ctrCursor' = r.origin
                          /\ ctrOut' = NoCtrOut
                          /\ UNCHANGED <<ctrImg, subVars>>
    /\ UNCHANGED <<overflowChecks, ncaIn, nca, fmtVars>>

\* one round of read_to_end: a read of the section reader into n spare bytes;
\* Ok(0) ends the loop, anything else is appended
NcaDumpRead(n) ==
    /\ dump.state = "reading"
    /\ IF dump.reader = "SubFile"
       THEN /\ SubFileRead(1, n)
            /\ dump' = IF sfOut'.ret = 0 THEN [dump EXCEPT !.state = "done"]
                       ELSE [dump EXCEPT !.data = dump.data \o sfOut'.bytes]
            /\ UNCHANGED ctrVars
       ELSE /\ CtrRead(1, n)
            /\ dump' = IF ctrOut'.ret = 0 THEN [dump EXCEPT !.state = "done"]
                       ELSE [dump EXCEPT !.data = dump.data \o ctrOut'.bytes]
            /\ UNCHANGED subVars
    /\ UNCHANGED <<overflowChecks, ncaIn, nca, ncaOut, fmtVars>>

\* spare capacities read_to_end hands to read
DumpBufLens == {2, 32}

\* payload regions inside the sources of the two kinds of reader
DumpSubRegions == {Region(0, 0), Region(1, 2), Region(0, 5), Region(2, 3)}

DumpCtrRegions == {Region(0, 16), Region(5, 17), Region(16, 24), Region(0, 40)}

\* two sections at media offset 0: an unencrypted one and an AES-CTR one
DumpLayouts ==
    { [fs_entries |-> <<FsEntry(0, 1), FsEntry(0, 1), FsEntry(0, 0), FsEntry(0, 0)>>,
       fs_slots |-> [i \in 1..4 |->
           IF i = 1 THEN FsHeader("None", HashData("HierarchicalSha256", <<sub, sub>>), 0)
           ELSE FsHeader("AesCtr", HashData("HierarchicalIntegrity", <<ctr, ctr>>), 0)]] :
          sub \in DumpSubRegions, ctr \in DumpCtrRegions }

NcaDumpInit ==
    NcaInitOver({0}, {"Application"}, {0},
                {{HeaderKeyName, KeyAreaKeyName("Application", 0)}},
                {[some |-> FALSE, keys |-> {}]}, DumpLayouts)

NcaDumpBeginAny == \E idx \in 0..MaxSections : NcaDumpBegin(idx)

NcaDumpReadAny == \E n \in DumpBufLens : NcaDumpRead(n)

NcaDumpNext == NcaFromReader \/ NcaDumpBeginAny \/ NcaDumpReadAny

SpecNcaDump == NcaDumpInit /\ [][NcaDumpNext]_vars

----------------------------------------------------------------------------
(* Nca: claims *)

C11_UnsupportedEncryption ==
    (ncaOut.op = "open" /\ ncaOut.idx < Len(nca.fs_headers)) =>
        (nca.fs_headers[ncaOut.idx + 1].encryption_type \notin {"None", "AesCtr"}
            => ncaOut.res = "NotSupported")

\* C10: no rights id and the key-area key missing at construction: the
\* key-lookup error of an AES-CTR open names exactly the key construction
\* looked up, family and two lowercase hex digits of the effective generation,
\* for every pair of key_generation_old and key_generation
C10_ErrorNamesLookedUpKey ==
    (ncaOut.op = "open" /\ ncaOut.res = "KeyLookupError" /\ ~has_rights_id(nca.header)) =>
        /\ ncaOut.lookups = {ncaOut.name}
        /\ ~KeysetHas(ncaIn.keyset, ncaOut.name)
        /\ Len(ncaOut.name.suffix) = 2
        /\ \A i \in 1..2 : \E d \in 0..15 : ncaOut.name.suffix[i] = HexDigit(d)

\* C12: NcaHeader::get_key_generation and Nca::get_key_generation both return
\* eff = max(key_generation_old, key_generation) - 1 when that maximum is above 0
\* and 0 otherwise, for every pair of generations, and the key-area key and the
\* title-KEK are looked up under eff
C12_KeyGenerationAccessors ==
    nca # <<>> =>
        LET old == nca.header.key_generation_old
            gen == nca.header.key_generation
            highest == IF old < gen THEN gen ELSE old
            eff == IF highest > 0 THEN highest - 1 ELSE 0
        IN /\ NcaHeader_get_key_generation(nca.header) = eff
           /\ Nca_get_key_generation(nca) = eff
           /\ ncaOut.lookups \subseteq
                 {KeyAreaKeyName(nca.header.key_area_appkey_index, eff), TitleKekName(eff)}

\* the header slot (from 1) of the idx-th (from 0) fs entry that is not (0, 0)
NthSection(fs_entries, idx) ==
    CHOOSE k \in 1..Len(fs_entries) :
        /\ fs_entries[k] # FsEntry(0, 0)
        /\ Cardinality({j \in 1..(k - 1) : fs_entries[j] # FsEntry(0, 0)}) = idx

\* C13: for every successfully opened NCA filesystem_count() is the number of the
\* four fs entries that are not (0, 0), so at most 4 and 0 when all are zeroed;
\* get_fs_offset(idx) is Some(0x200 * start_offset of the idx-th such entry) below
\* the count and None from it on; fs_headers[idx] is the header slot of that entry
C13_SectionTable ==
    nca # <<>> =>
        LET fs_entries == nca.header.fs_entries
            count == Cardinality({k \in 1..Len(fs_entries) : fs_entries[k] # FsEntry(0, 0)})
        IN /\ filesystem_count(nca) = count
           /\ count <= 4
           /\ \A idx \in 0..5 :
                 IF idx < count
                 THEN /\ get_fs_offset(nca, idx) =
                            Some(512 * fs_entries[NthSection(fs_entries, idx)].start_offset)
                      /\ get_fs_offset(nca, idx).value % 512 = 0
                      /\ nca.fs_headers[idx + 1] = ncaIn.fs_slots[NthSection(fs_entries, idx)]
                 ELSE get_fs_offset(nca, idx) = None

\* an opened NCA with two sections, one of them an entry whose start is 0, behind
\* an empty first entry
C13_Witness ==
    /\ nca # <<>>
    /\ nca.header.fs_entries = <<FsEntry(0, 0), FsEntry(6, 8), FsEntry(0, 0), FsEntry(0, 3)>>
    /\ filesystem_count(nca) = 2
    /\ get_fs_offset(nca, 0) = Some(3072)
    /\ get_fs_offset(nca, 1) = Some(0)
    /\ nca.fs_headers[2].ctr = 4

\* C14: dumping a section of encryption type None or AesCtr (keys resolved)
\* yields a bounded stream: the bytes collected never exceed the payload size,
\* and the dump ends, the reader returning 0, with exactly payload-size bytes
C14_DumpIsBounded ==
    dump.state \in {"reading", "done"} =>
        LET fs_size == PayloadRegion(nca.fs_headers[dump.idx + 1].hash_data).size
        IN /\ Len(dump.data) <= fs_size
           /\ dump.state = "done" => Len(dump.data) = fs_size

----------------------------------------------------------------------------
(* Pfs0 and Hfs0: claims *)

\* C15: for every PFS0 and HFS0 container that opens successfully the names of
\* the listing are pairwise distinct, and get_file(e.name) returns an entry equal
\* to e (name, offset, size) for every listed entry e
C15_NamesUniqueAndFound ==
    /\ (obj # <<>> /\ obj.kind = "Pfs0") =>
          LET files == Pfs0GetFiles(obj) IN
          /\ \A i, j \in 1..Len(files) : i # j => files[i].name # files[j].name
          /\ \A i \in 1..Len(files) : Pfs0Find(obj, files[i].name) = Some(files[i])
    /\ (obj # <<>> /\ obj.kind = "Hfs0" /\ out.op = "list_files" /\ out.res = "Ok") =>
          LET files == out.files IN
          /\ \A i, j \in 1..Len(files) : i # j => files[i].name # files[j].name
          /\ \A i \in 1..Len(files) :
                /\ Hfs0GetFile(obj, files[i].name).res = "Ok"
                /\ Hfs0GetFile(obj, files[i].name).file = Some(files[i])

\* C16: for every PFS0 the listing is in entry-table order and empty for
\* num_files = 0; reading an entry with read_file, read_buf or the SubFile of
\* create_reader yields exactly its data_size bytes from source offset
\* 0x10 + 0x18 * num_files + string_table_size + data_offset
C16_Pfs0ListAndRead ==
    (obj # <<>> /\ obj.kind = "Pfs0") =>
        LET files == Pfs0GetFiles(obj)
            data_start == 16 + 24 * img.num_files + img.str_table_size
        IN /\ Len(files) = img.num_files
           /\ \A i \in 1..Len(files) :
                 /\ files[i].data_offset = img.entries[i].data_offset
                 /\ files[i].size = img.entries[i].data_size
                 /\ files[i].name = Pfs0GetName(img.entries[i], img.string_table).name
           /\ (out.op = "read_file" /\ out.res = "Ok") =>
                 \A i \in 1..Len(files) :
                    files[i].name = out.arg =>
                       /\ data_start + files[i].data_offset + files[i].size <= img.len
                       /\ out.data = FsSrcBytes(data_start + files[i].data_offset, files[i].size)
           /\ (out.op = "read_buf" /\ out.res = "Ok") =>
                 /\ data_start + files[out.arg].data_offset + files[out.arg].size <= img.len
                 /\ out.data = FsSrcBytes(data_start + files[out.arg].data_offset,
                                          files[out.arg].size)
           /\ (out.op = "create_reader" /\ out.res = "Ok") =>
                 /\ out.window.start = data_start + files[out.arg].data_offset
                 /\ out.window.end = out.window.start + files[out.arg].size

----------------------------------------------------------------------------
(* Xci: claims *)

\* C17: the full image of a card (key area without the magic, "HEAD" at 0x1100)
\* and the trimmed image of the same card both open with Xci::new and yield the
\* card's header fields and the same root-HFS0 partitions; the root HFS0 is read
\* at hfs0_offset + 0x1000 of the full image and at hfs0_offset of the trimmed one
C17_FullAndTrimmedAgree ==
    (/\ img.parser = "Xci"
     /\ img.card.magic = "HEAD"
     /\ img.card.header.enums_ok
     /\ img.card_len >= img.card.header.hfs0_offset + img.card.root.len
     /\ img.key_area.heads = {}) =>
        LET twin == XciNewResult(XciTwin(img)) IN
        /\ out.op = "new" =>
              /\ out.res = "Ok"
              /\ twin.res = "Ok"
              /\ obj.header = img.card.header
              /\ obj.header = twin.xci.header
        /\ out.op = "list_hfs0_partitions" =>
              /\ out.window.start = img.card.header.hfs0_offset
                                      + (IF img.layout = "full" THEN 4096 ELSE 0)
              /\ twin.res = "Ok"
              /\ out.res = XciListResult(twin.xci, XciTwin(img)).res
              /\ out.arg = XciListResult(twin.xci, XciTwin(img)).arg
              /\ out.files = XciListResult(twin.xci, XciTwin(img)).files

----------------------------------------------------------------------------
(* RomFs: claims *)

\* get_file_by_path returned Some entry
LookupFound == out.res = "Ok" /\ out.entry.some

RECURSIVE ChainEndsUnmatched(_, _, _, _, _)
ChainEndsUnmatched(entries, current, parent_offset, name, steps) ==
    IF current = INVALID_ENTRY THEN TRUE
    ELSE IF steps = 0 \/ current \notin DOMAIN entries THEN FALSE
    ELSE /\ ~(entries[current].parent_offset = parent_offset /\ entries[current].name = name)
         /\ ChainEndsUnmatched(entries, entries[current].hash_sibling_offset, parent_offset,
                               name, steps - 1)

\* a directory of the path is absent: the directories in front of it are found
\* and its own chain ends in the sentinel
ParentAbsent(fs, path) ==
    /\ Len(fs.dir_hash_table) > 0
    /\ \E i \in 1..(Len(path) - 1) :
          LET before == find_dir(fs, SubSeq(path, 1, i - 1)) IN
          /\ before.res = "Ok"
          /\ ChainEndsUnmatched(fs.reader.dirs,
                fs.dir_hash_table[compute_hash(before.offset, path[i],
                                               Len(fs.dir_hash_table)) + 1],
                before.offset, path[i], Cardinality(DOMAIN fs.reader.dirs))

\* the file of the path is absent: its directory is found and the file chain
\* ends in the sentinel
FileAbsent(fs, path) ==
    /\ path # <<>>
    /\ Len(fs.file_hash_table) > 0
    /\ LET parent == find_dir(fs, ParentPath(path)) IN
       /\ parent.res = "Ok"
       /\ ChainEndsUnmatched(fs.reader.files,
             fs.file_hash_table[compute_hash(parent.offset, path[Len(path)],
                                             Len(fs.file_hash_table)) + 1],
             parent.offset, path[Len(path)], Cardinality(DOMAIN fs.reader.files))

----------------------------------------------------------------------------
(* Cnmt: claims *)

----------------------------------------------------------------------------
(* Pfs0: panics of from_reader *)

\* C21: Pfs0::from_reader never panics: for every byte source it returns a Pfs0
\* or an error, also when the name offset of an entry lies beyond the string
\* table or the bytes of a name are not valid UTF-8
C21_Pfs0FromReaderNeverPanics ==
    (img.parser = "Pfs0" /\ out.op = "from_reader") => out.res # "panic"

----------------------------------------------------------------------------
(* RomFs: errors of the byte source *)

\* the read of a directory entry fails while find_dir walks the path: the
\* directories in front are found and the chain of part i reaches an entry
\* that cannot be read
DirReadFails(fs, path) ==
    \E i \in 1..Len(path) :
       LET before == find_dir(fs, SubSeq(path, 1, i - 1)) IN
       /\ before.res = "Ok"
       /\ find_dir_in_parent(fs, before.offset, path[i]).res = "Io"

\* the read of a file entry fails while the file chain of the path is walked
FileReadFails(fs, path) ==
    /\ path # <<>>
    /\ LET parent == find_dir(fs, ParentPath(path)) IN
       /\ parent.res = "Ok"
       /\ find_file_in_dir(fs, parent.offset, path[Len(path)]).res = "Io"

\* C22: when the byte source fails while find_dir or get_file_by_path reads a
\* directory or file entry, the lookup returns that failure as an error of the
\* source, never as not-found or Ok(None)
C22_ReadFailureIsReturned ==
    /\ (RomFsOpened /\ out.op = "find_dir" /\ DirReadFails(obj, out.path))
          => out.res = "Io"
    /\ (/\ RomFsOpened
        /\ out.op = "get_file_by_path"
        /\ DirReadFails(obj, ParentPath(out.path)) \/ FileReadFails(obj, out.path))
          => out.res = "Io"

----------------------------------------------------------------------------
(* RomFs: termination of the chain walks *)

\* C27: every chain walk ends for every image: find_dir_in_parent and
\* find_file_in_dir along the hash_sibling links and open_dir along the sibling
\* links return, also when the links form a cycle that never reaches the
\* sentinel
C27_ChainWalksTerminate ==
    (img.parser = "RomFs" /\ out.op \in {"find_dir", "get_file_by_path", "open_dir"})
        => out.res # "diverges"

----------------------------------------------------------------------------
(* RomFs: file_exists *)

\* C28: file_exists(path) is true if and only if get_file_by_path(path) returns
\* Ok(Some(entry)); it is false for a path whose file or parent directory is
\* absent
C28_FileExistsIffFound ==
    (img.parser = "RomFs" /\ out.op = "file_exists" /\ out.res = "Ok") =>
        LET found == get_file_by_path(obj, out.path) IN
        out.exists <=> (found.res = "Ok" /\ found.entry.some)

----------------------------------------------------------------------------
(* RomFs: hash tables without buckets *)

\* C30: for every image that from_reader accepts, find_dir and get_file_by_path
\* return Ok or Err for every path and never panic, also for an image whose
\* declared hash-table size is smaller than 4 bytes, so that the hash table in
\* memory has no bucket
C30_LookupsNeverPanic ==
    (img.parser = "RomFs" /\ obj # <<>> /\ out.op \in {"find_dir", "get_file_by_path"})
        => out.res # "panic"

----------------------------------------------------------------------------
(* RomFs: list_files *)

\* the offsets of the files that open_dir lists for the directories the walk
\* from the root reaches
WalkedFileOffsets(fs) ==
    UNION { LET opened == open_dir(fs, path) IN
            IF WalkFindsDir(fs, path) /\ opened.res = "Ok"
            THEN { opened.file_offsets[j] : j \in 1..Len(opened.file_offsets) }
                    \cap DOMAIN fs.reader.files
            ELSE {} : path \in RomFsPaths }

\* C26: list_files returns exactly the files of the image, each once: every
\* returned entry is the record that starts at a file-entry offset of the file
\* table, and every file reached from the root by open_dir is in the result
C26_ListFilesIsTheFiles ==
    (img.parser = "RomFs" /\ out.op = "list_files") =>
        /\ out.res = "Ok"
        /\ \A k \in 1..Len(out.files) :
              /\ out.file_offsets[k] \in DOMAIN obj.reader.files
              /\ out.files[k] = obj.reader.files[out.file_offsets[k]]
              /\ \A j \in 1..Len(out.files) :
                    out.file_offsets[j] = out.file_offsets[k] => j = k
        /\ WalkedFileOffsets(obj)
             \subseteq { out.file_offsets[k] : k \in 1..Len(out.file_offsets) }

----------------------------------------------------------------------------
(* RomFs: the directory iterator *)

\* two sequences of items are equal as far as both go
SamePass(pass, first) ==
    \A k \in 1..Min(Len(pass), Len(first)) : pass[k] = first[k]

\* C25: the iterator is restartable: after rewind() the results of next_dir()
\* and of next_file() are those of the passes before, item by item up to None,
\* whatever calls preceded the rewind, and dir_count() / file_count() are the
\* counts of open_dir
C25_RewindRestarts ==
    IterOpened =>
        /\ SamePass(out.dirs, out.first_dirs)
        /\ SamePass(out.files, out.first_files)
        /\ out.counts = out.opened_counts

\* a second pass over two files to None, after a first pass that went to None
\* over the files and stopped early over the directories
C25_Witness ==
    /\ IterOpened
    /\ out.rewound
    /\ Len(out.first_files) = 3
    /\ out.first_files[3] = None
    /\ out.files = out.first_files
    /\ out.files[1] # out.files[2]
    /\ out.op = "next_file"

----------------------------------------------------------------------------
(* Aes128CtrReader: the position seek returns *)

\* C29: seek returns the new logical position, measured from base_offset, for
\* every base_offset: seek(Start(p)) returns p, and seek(Current(0)) after a
\* read of n bytes from logical position p returns p + n
C29_SeekReturnsLogicalPosition ==
    /\ (ctrOut.op = "seek" /\ ctrOut.whence = "Start") => ctrOut.ret = ctrOut.arg
    /\ (ctrOut.op = "seek" /\ ctrOut.whence = "Current" /\ ctrOut.arg = 0
           /\ ctrOut.afterRead)
          => ctrOut.ret = ctrOut.pre[ctrOut.r].offset - ctrOut.pre[ctrOut.r].base_offset

----------------------------------------------------------------------------
(* Nca: the payload region of an opened section *)

----------------------------------------------------------------------------
(* Nca: decoding of a section header *)

\* the enums of a section header, by their byte
FsTypes == <<"RomFs", "PartitionFs">>

HashTypes ==
    <<"Auto", "None", "HierarchicalSha256Hash", "HierarchicalIntegrityHash", "AutoSha3",
      "HierarchicalSha3256Hash", "HierarchicalIntegritySha3Hash">>

EncryptionTypes ==
    <<"Auto", "None", "AesXts", "AesCtr", "AesCtrEx", "AesCtrSkipLayerHash",
      "AesCtrExSkipLayerHash">>

MetaDataHashTypes == <<"None", "HierarchicalIntegrity">>

\* a repr = u8 enum: the variant of the byte, or no variant
ReprU8(variants, byte) ==
    IF byte < Len(variants) THEN Some(variants[byte + 1]) ELSE None

\* the 0x200 bytes of a section header, the 8 bytes in front of hash_data, the
\* bytes HierarchicalSha256Hash reads and those HierarchicalIntegrity reads in
\* front of and behind its levels, and the bytes of a level
FsHeaderLen == 512

FsHeaderPrefixLen == 8

Sha256HashLen == 184

IntegrityFixedLen == 16

LevelInfoLen == 24

\* the variants of HashData in the order of their declaration, each with what
\* its read needs of the bytes left in the slot: HierarchicalSha256Hash has no
\* magic and no pre_assert, HierarchicalIntegrity has the magic "IVFC"
HashDataVariants == <<"HierarchicalSha256Hash", "HierarchicalIntegrity">>

HashDataVariantReads(variant, slot) ==
    LET left == FsHeaderLen - FsHeaderPrefixLen IN
    IF variant = "HierarchicalSha256Hash" THEN Sha256HashLen <= left
    ELSE /\ slot.magic = "IVFC"
         /\ IntegrityFixedLen + LevelInfoLen * slot.max_layers <= left

\* BinRead of the data enum HashData: the variants are tried in the order of
\* their declaration and the first that reads is the value
RECURSIVE HashDataReadFrom(_, _)
HashDataReadFrom(slot, k) ==
    IF k > Len(HashDataVariants) THEN None
    ELSE IF HashDataVariantReads(HashDataVariants[k], slot) THEN Some(HashDataVariants[k])
    ELSE HashDataReadFrom(slot, k + 1)

HashDataReadLe(slot) == HashDataReadFrom(slot, 1)

\* read_le::<FsHeader>() on the slot: the fields in their order, hash_data read
\* without an argument
FsHeaderReadLe(slot) ==
    LET fs_type == ReprU8(FsTypes, slot.fs_type)
        hash_type == ReprU8(HashTypes, slot.hash_type)
        encryption_type == ReprU8(EncryptionTypes, slot.encryption_type)
        metadata_hash_type == ReprU8(MetaDataHashTypes, slot.metadata_hash_type)
        hash_data == HashDataReadLe(slot)
    IN IF \/ ~fs_type.some
          \/ ~hash_type.some
          \/ ~encryption_type.some
          \/ ~metadata_hash_type.some
          \/ ~hash_data.some
       THEN [res |-> "BinaryParser", fs_header |-> <<>>]
       ELSE [res |-> "Ok",
             fs_header |-> [fs_type |-> fs_type.value, hash_type |-> hash_type.value,
                            encryption_type |-> encryption_type.value,
                            metadata_hash_type |-> metadata_hash_type.value,
                            hash_data |-> hash_data.value]]

\* the step of the loop of Nca::from_reader that decodes the slot of a section
FsHeaderRead ==
    /\ ncaOut.op = "none"
    /\ LET read == FsHeaderReadLe(ncaIn) IN
       ncaOut' = [op |-> "read_fs_header", res |-> read.res, fs_header |-> read.fs_header]
    /\ UNCHANGED <<ncaIn, nca, dump>>
    /\ NcaIdleOthers

\* levels a hash-data region declares
MaxLevels == 6

\* slots: every byte of the enums up to the first without a variant, the
\* hash-data region starting with "IVFC" or with zeros
FsHeaderSlots ==
    [fs_type : 0..Len(FsTypes), hash_type : 0..Len(HashTypes),
     encryption_type : {1, 3, Len(EncryptionTypes)},
     metadata_hash_type : {0, Len(MetaDataHashTypes)},
     magic : {"IVFC", "zeros"}, max_layers : {0, MaxLevels}]

FsHeaderInit ==
    /\ overflowChecks = FALSE
    /\ SubIdle
    /\ CtrIdle
    /\ FmtIdle
    /\ ncaIn \in FsHeaderSlots
    /\ nca = <<>>
    /\ ncaOut = [op |-> "none", res |-> "none", fs_header |-> <<>>]
    /\ dump = NoDump

FsHeaderNext == FsHeaderRead

SpecFsHeader == FsHeaderInit /\ [][FsHeaderNext]_vars

\* C23: for each section header that from_reader decodes the variant of the
\* hash data is the one of the declared hash_type: HierarchicalIntegrity exactly
\* for HierarchicalIntegrityHash and HierarchicalSha256 exactly for
\* HierarchicalSha256Hash, whatever the hash-data region holds
C23_VariantFollowsHashType ==
    (ncaOut.op = "read_fs_header" /\ ncaOut.res = "Ok") =>
        /\ ncaOut.fs_header.hash_data = "HierarchicalIntegrity"
              <=> ncaOut.fs_header.hash_type = "HierarchicalIntegrityHash"
        /\ ncaOut.fs_header.hash_data = "HierarchicalSha256Hash"
              <=> ncaOut.fs_header.hash_type = "HierarchicalSha256Hash"

====
